---- MODULE Spec2Model ----
(***************************************************************************)
(* A model of the instrumentor library: the Counter, Gauge and Histogram   *)
(* metrics (src/instrumentor/metrics.py), the CollectorRegistry that       *)
(* buffers their update actions and transfers them to Redis                *)
(* (src/instrumentor/registry.py).                                         *)
(*                                                                         *)
(* Python strings are sequences of one-character strings, so that key      *)
(* formatting, splitting and sorting are computed and not assumed.         *)
(* A Python number is an int or a float; the floats of the model are the   *)
(* multiples of 1/2, which IEEE arithmetic adds and subtracts exactly.     *)
(* A Python dict is a function whose DOMAIN is the set of its keys.        *)
(* A handler is an operator from a program state record S to the program   *)
(* state after the call; an exception is the field exc of the result, and  *)
(* the code after a raise is skipped.  A call is one step, except a        *)
(* Histogram.observe in an eager registry, which waits for Redis once in   *)
(* each of its propagate calls: each of them is a step, and pc is the      *)
(* position of the process between them.                                   *)
(***************************************************************************)
EXTENDS Integers, Sequences, FiniteSets, TLC

VARIABLES
    redis,                \* the Redis hash of the namespace: field -> value
    eager,                \* CollectorRegistry.eager, per registry
    metrics,              \* CollectorRegistry.metrics, per registry: name -> metric
    buffer,               \* CollectorRegistry.buffer, per registry: key -> UpdateAction
    registry,             \* Metric.registry, per metric
    registered_remotely,  \* Metric.registered_remotely, per metric
    counts,               \* Counter/Gauge/Histogram.counts, per metric
    set_command_issued,   \* Gauge.set_command_issued, per metric
    sum,                  \* Histogram.sum, per metric
    exc,                  \* the exception the last step raised, "ok" if none
    trace,                \* what the last step did: batches propagated, round trips, resets
    call,                 \* the last call, or the one in progress: operation, target and arguments
    total,                \* history: per metric and label key, net amount of all accepted
                          \* inc/dec, counted in halves
    contrib,              \* history: per registry, the metrics with a batch in the buffer
    batches,              \* history: per metric, number of batches propagated (capped at 2)
    tdbatches,            \* history: per metric, number of batches with type and description (capped at 2)
    tdfirst,              \* history: per metric, the first batch carried type and description
    setcalled,            \* history: per metric, label keys that set() has been called for
    observed,             \* history: per metric, the observations since the last reset
    nregs,                \* history: number of register and unregister calls made
    nops,                 \* history: per registry, number of metric operations and
                          \* update_buffer calls of the application accepted through it
    pc,                   \* Histogram.observe in progress: the propagate calls it has still to make
                          \* (rest), and what the last call did in all its steps so far (done)
    direct                \* history: the methods among reset, update_buffer, propagate,
                          \* add_registry and remove_registry that the application
                          \* has called itself

vars == <<redis, eager, metrics, buffer, registry, registered_remotely, counts,
          set_command_issued, sum, exc, trace, call, total, contrib, batches,
          tdbatches, tdfirst, setcalled, observed, nregs, nops, pc, direct>>

(***************************************************************************)
(* Bounds of the model.                                                    *)
(***************************************************************************)
MaxOps == 2       \* a process is offered metric operations and update_buffer until it
                  \* has had this many accepted
MaxRegs == 2      \* register and unregister are offered until this many calls have been made
MaxRemote == 4    \* transfer is offered while no number in Redis exceeds this
MaxForeign == 1   \* fields another writer of the namespace adds
MaxFail == 1      \* a call taken as a whole may have one of its first MaxFail round
                  \* trips chosen to fail

(***************************************************************************)
(* Strings.                                                                *)
(***************************************************************************)
NO_LABELS_KEY == <<"_", "_">>
HISTOGRAM_LABEL == <<"l", "e">>
SUMMARY_LABEL == <<"q", "u", "a", "n", "t", "i", "l", "e">>
INFINITY_FOR_HISTOGRAM == <<"+", "I", "n", "f">>
TYPE_EXTENSION_LETTER == <<"t">>
DESCRIPTION_EXTENSION_LETTER == <<"d">>

\* The characters the model uses, in code point order.
Alphabet == <<"\"", "+", ",", "0", "1", "2", "3", "4", "5", "6", "7", "8", "9",
              ":", "=", "D", "I", "_", "a", "b", "c", "d", "e", "f", "g", "h",
              "i", "l", "n", "q", "s", "t", "u", "x">>

Ord(ch) == CHOOSE i \in 1..Len(Alphabet) : Alphabet[i] = ch

\* Python's str < str: lexicographic by code point.
RECURSIVE StrLess(_, _)
StrLess(a, b) ==
    IF b = <<>> THEN FALSE
    ELSE IF a = <<>> THEN TRUE
    ELSE IF Head(a) = Head(b) THEN StrLess(Tail(a), Tail(b))
    ELSE Ord(Head(a)) < Ord(Head(b))

\* str(n) of an int.
RECURSIVE IntToStr(_)
IntToStr(n) ==
    IF n < 0 THEN <<"-">> \o IntToStr(-n)
    ELSE IF n < 10 THEN <<Alphabet[4 + n]>>
    ELSE IntToStr(n \div 10) \o <<Alphabet[4 + (n % 10)]>>

(***************************************************************************)
(* Python values that a metric holds, an UpdateAction carries and Redis    *)
(* stores: an int, a float, a str or None, as records of one shape.  The   *)
(* float of PyFloat(h) is h/2.  A field of the Redis hash is text:         *)
(* PyInt(n) stands for the digits of n, PyFloat(h) for the repr of the     *)
(* float, PyStr(s) for any other text.                                     *)
(***************************************************************************)
PyInt(n) == [kind |-> "int", int |-> n, half |-> 0, str |-> <<>>]
PyFloat(h) == [kind |-> "float", int |-> 0, half |-> h, str |-> <<>>]
PyStr(s) == [kind |-> "str", int |-> 0, half |-> 0, str |-> s]
PyNone == [kind |-> "none", int |-> 0, half |-> 0, str |-> <<>>]

\* The value of a number, in halves.
Halves(v) == IF v.kind = "int" THEN 2 * v.int ELSE v.half

\* a + b and a - b: an int when both are, a float otherwise
PyAdd(a, b) ==
    IF a.kind = "int" /\ b.kind = "int" THEN PyInt(a.int + b.int)
    ELSE PyFloat(Halves(a) + Halves(b))

PySub(a, b) ==
    IF a.kind = "int" /\ b.kind = "int" THEN PyInt(a.int - b.int)
    ELSE PyFloat(Halves(a) - Halves(b))

\* a < b and a >= b
PyLess(a, b) == Halves(a) < Halves(b)
PyGe(a, b) == Halves(a) >= Halves(b)

\* repr(x) of a float, which is how redis-py encodes it: 0.5, 1.0, -1.5
FloatRepr(h) ==
    IF h % 2 = 0 THEN IntToStr(h \div 2) \o <<".", "0">>
    ELSE (IF h < 0 THEN <<"-">> ELSE <<>>)
         \o IntToStr((IF h < 0 THEN -h ELSE h) \div 2) \o <<".", "5">>

\* dict helpers
EmptyDict == <<>>
Get(d, k, default) == IF k \in DOMAIN d THEN d[k] ELSE default
Put(d, k, v) == [x \in DOMAIN d \cup {k} |-> IF x = k THEN v ELSE d[x]]
Del(d, k) == [x \in DOMAIN d \ {k} |-> d[x]]

UpdateAction(key, value, set) == [key |-> key, value |-> value, set |-> set]

(***************************************************************************)
(* The objects of the model: two registries on one Redis namespace, and    *)
(* the metrics constructed by the application.  c1 and c2 are two Counters *)
(* of the same name, g1 and g2 two Gauges of the same name.                *)
(***************************************************************************)
Registries == {"r1", "r2"}
Metrics == {"c1", "c2", "g1", "g2", "h1"}
NoRegistry == "none"

Kind(m) == CASE m \in {"c1", "c2"} -> "Counter"
             [] m \in {"g1", "g2"} -> "Gauge"
             [] OTHER -> "Histogram"

name(m) == CASE Kind(m) = "Counter" -> <<"c">>
             [] Kind(m) = "Gauge" -> <<"g">>
             [] OTHER -> <<"h">>

description(m) == <<"D">>

TYPE_KEY(m) == CASE Kind(m) = "Counter" -> <<"c">>
                 [] Kind(m) = "Gauge" -> <<"g">>
                 [] OTHER -> <<"h">>

allowed_labels(m) == {<<"a">>, <<"b">>}

RESERVED_LABELS == {NO_LABELS_KEY, HISTOGRAM_LABEL, SUMMARY_LABEL}

INTERNAL_LABELS(m) == IF Kind(m) = "Histogram" THEN {HISTOGRAM_LABEL} ELSE {}

buckets(m) == <<1, 2>>

MetricNames == {name(m) : m \in Metrics}

(***************************************************************************)
(* Labels: a mapping is a sequence of <<name, value>> pairs in insertion   *)
(* order; <<>> is both None and the empty dict.                            *)
(***************************************************************************)

\* Metric._check_labels: TRUE when it returns, FALSE when it raises ValueError.
check_labels(m, labels) ==
    \A i \in 1..Len(labels) :
        LET label == labels[i][1] IN
        /\ ~(label \in RESERVED_LABELS /\ label \notin INTERNAL_LABELS(m))
        /\ ~(label \notin allowed_labels(m) /\ label \notin INTERNAL_LABELS(m))

\* sorted(_labels.items()): insertion sort by label name.
RECURSIVE Insert(_, _)
Insert(item, sorted) ==
    IF sorted = <<>> THEN <<item>>
    ELSE IF StrLess(item[1], Head(sorted)[1]) THEN <<item>> \o sorted
    ELSE <<Head(sorted)>> \o Insert(item, Tail(sorted))

\* The items as they would be without sorted(): in insertion order.
SortedItems_InsertionOrder(labels) == labels

RECURSIVE SortedItems(_)
SortedItems(labels) ==
    IF labels = <<>> THEN <<>>
    ELSE Insert(Head(labels), SortedItems(Tail(labels)))

RECURSIVE LabelString(_)
LabelString(items) ==
    IF items = <<>> THEN <<>>
    ELSE Head(items)[1] \o <<"=", "\"">> \o Head(items)[2] \o <<"\"", ",">>
         \o LabelString(Tail(items))

\* Metric._encode_labels, for labels that pass _check_labels.
encode_labels(m, labels) ==
    IF labels = <<>> THEN NO_LABELS_KEY
    ELSE LET label_string == LabelString(SortedItems(labels))
         IN SubSeq(label_string, 1, Len(label_string) - 1)

\* Metric.make_redis_key
make_redis_key(m, extension, labels) ==
    name(m) \o <<":">> \o extension \o <<":">>
        \o (IF labels = NO_LABELS_KEY THEN <<>> ELSE labels)

metric_type_key(m) == make_redis_key(m, TYPE_EXTENSION_LETTER, <<>>)
metric_description_key(m) == make_redis_key(m, DESCRIPTION_EXTENSION_LETTER, <<>>)

\* key.split(":")[0]
RECURSIVE SplitName(_)
SplitName(key) ==
    IF key = <<>> \/ Head(key) = ":" THEN <<>>
    ELSE <<Head(key)>> \o SplitName(Tail(key))

(***************************************************************************)
(* The program state a handler works on: the variables, and the inputs of  *)
(* the call that the environment decides.  failAt is the round trip of     *)
(* this call at which pipe.execute() raises (0: none does), rt the number  *)
(* of round trips made so far, order the order in which Python iterates    *)
(* the set metric_names in transfer().                                     *)
(***************************************************************************)
Raise(S, e) == [S EXCEPT !.exc = e]

\* trace: a batch handed to update_buffer (items), a round trip (buf: the buffer
\* it applied, redis: the hash after it), a reset of a metric, a cleared buffer.
Log(S, ev, m, r, items, buf) ==
    [S EXCEPT !.trace = Append(@, [ev |-> ev, m |-> m, r |-> r, items |-> items,
                                   buf |-> buf, redis |-> S.redis])]

\* reset() as it would be with Counter.reset a no-op like Gauge.reset.
reset_CounterKeepsCounts(S, m) ==
    LET S1 == Log(S, "reset", m, "-", <<>>, EmptyDict) IN
    CASE Kind(m) \in {"Counter", "Gauge"} -> S1
      [] OTHER -> [S1 EXCEPT !.counts[m] = EmptyDict, !.sum[m] = PyInt(0)]

\* Counter.reset, Gauge.reset, Histogram.reset
reset(S, m) ==
    LET S1 == Log(S, "reset", m, "-", <<>>, EmptyDict) IN
    CASE Kind(m) = "Counter" -> [S1 EXCEPT !.counts[m] = Put(EmptyDict, NO_LABELS_KEY, PyInt(0))]
      [] Kind(m) = "Gauge" -> S1
      [] OTHER -> [S1 EXCEPT !.counts[m] = EmptyDict, !.sum[m] = PyInt(0)]

\* Redis HMSET namespace mapping
hmset(h, mapping) ==
    [k \in DOMAIN h \cup DOMAIN mapping |-> IF k \in DOMAIN mapping THEN mapping[k] ELSE h[k]]

\* Redis HINCRBY namespace key amount: a missing field counts as 0; a field that
\* holds no integer (the text of a float included) is left as it is (Redis
\* rejects the command).
hincrby(h, key, amount) ==
    IF key \notin DOMAIN h THEN Put(h, key, PyInt(amount))
    ELSE IF h[key].kind = "int" THEN Put(h, key, PyInt(h[key].int + amount))
    ELSE h

\* The text Redis stores for the result of HINCRBYFLOAT: a whole number
\* without fraction, as 2, any other as 1.5.
RedisNumber(halves) ==
    IF halves % 2 = 0 THEN PyInt(halves \div 2) ELSE PyFloat(halves)

\* Redis HINCRBYFLOAT namespace key amount (in halves): a missing field counts
\* as 0; a field that holds no number is left as it is (Redis rejects the
\* command).
hincrbyfloat(h, key, amount) ==
    IF key \notin DOMAIN h THEN Put(h, key, RedisNumber(amount))
    ELSE IF h[key].kind \in {"int", "float"}
    THEN Put(h, key, RedisNumber(Halves(h[key]) + amount))
    ELSE h

\* transfer(): for action in incr_actions: hincrby for an int, hincrbyfloat
\* for a float, no command for any other value
RECURSIVE hincrby_all(_, _, _)
hincrby_all(h, buf, keys) ==
    IF keys = {} THEN h
    ELSE LET k == CHOOSE x \in keys : TRUE IN
         hincrby_all(CASE buf[k].value.kind = "int" -> hincrby(h, k, buf[k].value.int)
                       [] buf[k].value.kind = "float" -> hincrbyfloat(h, k, buf[k].value.half)
                       [] OTHER -> h,
                     buf, keys \ {k})

\* The pipeline as it would be with every intent written by HMSET.
pipe_execute_AllSet(h, buf) ==
    hmset(h, [k \in DOMAIN buf |-> buf[k].value])

\* The pipeline of transfer(), executed by Redis as one MULTI/EXEC transaction.
pipe_execute(h, buf) ==
    LET set_actions == {k \in DOMAIN buf : buf[k].set}
        incr_actions == DOMAIN buf \ set_actions
        hmset_map == [k \in set_actions |-> buf[k].value]
    IN hincrby_all(hmset(h, hmset_map), buf, incr_actions)

\* A queued HINCRBY or HINCRBYFLOAT that Redis rejects makes pipe.execute()
\* raise after the other commands were applied.
pipe_rejects(h, buf) ==
    \E k \in DOMAIN buf :
        /\ ~buf[k].set
        /\ k \in DOMAIN h
        /\ \/ buf[k].value.kind = "int" /\ h[k].kind # "int"
           \/ buf[k].value.kind = "float" /\ h[k].kind \notin {"int", "float"}

\* transfer(): for metric_name in metric_names: self.metrics[metric_name].reset()
RECURSIVE reset_loop(_, _, _)
reset_loop(S, r, names) ==
    IF names = <<>> THEN S
    ELSE IF Head(names) \notin DOMAIN S.metrics[r] THEN Raise(S, "KeyError")
    ELSE reset_loop(reset(S, S.metrics[r][Head(names)]), r, Tail(names))

\* transfer() as it would be with the buffer cleared in a finally clause: a round
\* trip that fails loses the intents.
transfer_ClearAlways(S, r) ==
    LET buf == S.buffer[r]
        metric_names == {SplitName(k) : k \in DOMAIN buf}
        rt == S.rt + 1
        S0 == [S EXCEPT !.rt = rt]
    IN IF S.failAt = rt THEN Raise([S0 EXCEPT !.buffer[r] = EmptyDict], "TransportError")
       ELSE LET S1 == Log([S0 EXCEPT !.redis = pipe_execute(S.redis, buf)], "exec", "-", r, <<>>, buf)
            IN IF pipe_rejects(S.redis, buf) THEN Raise(S1, "ResponseError")
               ELSE LET S2 == reset_loop(S1, r, SelectSeq(S.order, LAMBDA n : n \in metric_names))
                    IN IF S2.exc # "ok" THEN S2
                       ELSE Log([S2 EXCEPT !.buffer[r] = EmptyDict], "clear", "-", r, <<>>, EmptyDict)

\* CollectorRegistry.transfer
transfer(S, r) ==
    LET buf == S.buffer[r]
        metric_names == {SplitName(k) : k \in DOMAIN buf}
        rt == S.rt + 1
        S0 == [S EXCEPT !.rt = rt]
    IN IF S.failAt = rt THEN Raise(S0, "TransportError")
       ELSE LET S1 == Log([S0 EXCEPT !.redis = pipe_execute(S.redis, buf)], "exec", "-", r, <<>>, buf)
            IN IF pipe_rejects(S.redis, buf) THEN Raise(S1, "ResponseError")
               ELSE LET S2 == reset_loop(S1, r, SelectSeq(S.order, LAMBDA n : n \in metric_names))
                    IN IF S2.exc # "ok" THEN S2
                       ELSE Log([S2 EXCEPT !.buffer[r] = EmptyDict], "clear", "-", r, <<>>, EmptyDict)

\* The loop of update_buffer() as it would be if an intent already buffered
\* under a key were kept.
RECURSIVE BufferPut_FirstWins(_, _)
BufferPut_FirstWins(buf, to_update) ==
    IF to_update = <<>> THEN buf
    ELSE BufferPut_FirstWins(IF Head(to_update).key \in DOMAIN buf THEN buf
                             ELSE Put(buf, Head(to_update).key, Head(to_update)),
                             Tail(to_update))

\* update_buffer(): for item in to_update: self.buffer[item.key] = item
RECURSIVE BufferPut(_, _)
BufferPut(buf, to_update) ==
    IF to_update = <<>> THEN buf
    ELSE BufferPut(Put(buf, Head(to_update).key, Head(to_update)), Tail(to_update))

\* update_buffer() as it would be without the eager transfer.
update_buffer_NeverTransfers(S, r, to_update) ==
    [S EXCEPT !.buffer[r] = BufferPut(@, to_update)]

\* CollectorRegistry.update_buffer
update_buffer(S, r, to_update) ==
    LET S1 == [S EXCEPT !.buffer[r] = BufferPut(@, to_update)]
    IN IF S.eager[r] THEN transfer(S1, r) ELSE S1

\* Metric.add_registry
add_registry(S, m, r) == [S EXCEPT !.registry[m] = r]

\* Metric.remove_registry
remove_registry(S, m) == [S EXCEPT !.registry[m] = NoRegistry]

\* CollectorRegistry.register
register(S, r, m) ==
    add_registry([S EXCEPT !.metrics[r] = Put(@, name(m), m)], m, r)

\* CollectorRegistry.unregister
unregister(S, r, m) ==
    IF name(m) \notin DOMAIN S.metrics[r] THEN Raise(S, "KeyError")
    ELSE remove_registry([S EXCEPT !.metrics[r] = Del(@, name(m))], m)

\* propagate() as it would be without self.registered_remotely = True.
propagate_FlagNeverSet(S, m, update_actions) ==
    IF S.registry[m] = NoRegistry THEN Raise(S, "RuntimeError")
    ELSE LET mapped == [i \in 1..Len(update_actions) |->
                          IF update_actions[i].key = NO_LABELS_KEY
                          THEN UpdateAction(name(m), update_actions[i].value, FALSE)
                          ELSE update_actions[i]]
             to_propagate ==
                 IF ~S.registered_remotely[m]
                 THEN mapped \o <<UpdateAction(metric_type_key(m), PyStr(TYPE_KEY(m)), TRUE),
                                  UpdateAction(metric_description_key(m), PyStr(description(m)), TRUE)>>
                 ELSE mapped
             S1 == Log(S, "batch", m, S.registry[m], to_propagate, EmptyDict)
         IN update_buffer(S1, S.registry[m], to_propagate)

\* propagate() as it would be if it dropped the update actions of a metric
\* without registry instead of raising.
propagate_DropsUnattached(S, m, update_actions) ==
    IF S.registry[m] = NoRegistry THEN S
    ELSE LET mapped == [i \in 1..Len(update_actions) |->
                          IF update_actions[i].key = NO_LABELS_KEY
                          THEN UpdateAction(name(m), update_actions[i].value, FALSE)
                          ELSE update_actions[i]]
             to_propagate ==
                 IF ~S.registered_remotely[m]
                 THEN mapped \o <<UpdateAction(metric_type_key(m), PyStr(TYPE_KEY(m)), TRUE),
                                  UpdateAction(metric_description_key(m), PyStr(description(m)), TRUE)>>
                 ELSE mapped
             S1 == Log([S EXCEPT !.registered_remotely[m] = TRUE],
                       "batch", m, S.registry[m], to_propagate, EmptyDict)
         IN update_buffer(S1, S.registry[m], to_propagate)

\* Metric.propagate
propagate(S, m, update_actions) ==
    IF S.registry[m] = NoRegistry THEN Raise(S, "RuntimeError")
    ELSE LET mapped == [i \in 1..Len(update_actions) |->
                          IF update_actions[i].key = NO_LABELS_KEY
                          THEN UpdateAction(name(m), update_actions[i].value, FALSE)
                          ELSE update_actions[i]]
             to_propagate ==
                 IF ~S.registered_remotely[m]
                 THEN mapped \o <<UpdateAction(metric_type_key(m), PyStr(TYPE_KEY(m)), TRUE),
                                  UpdateAction(metric_description_key(m), PyStr(description(m)), TRUE)>>
                 ELSE mapped
             S1 == Log([S EXCEPT !.registered_remotely[m] = TRUE],
                       "batch", m, S.registry[m], to_propagate, EmptyDict)
         IN update_buffer(S1, S.registry[m], to_propagate)

\* inc() as it would be if it stored the new value only after propagate()
\* returned.
Counter_inc_StoreAfterPropagate(S, m, value, labels) ==
    IF PyLess(value, PyInt(0)) THEN Raise(S, "ValueError")
    ELSE IF ~check_labels(m, labels) THEN Raise(S, "ValueError")
    ELSE LET key == encode_labels(m, labels)
             current_value == Get(S.counts[m], key, PyInt(0))
             new_value == PyAdd(current_value, value)
             S1 == propagate(S, m, <<UpdateAction(make_redis_key(m, <<>>, key), new_value, FALSE)>>)
         IN IF S1.exc = "RuntimeError" THEN S1
            ELSE [S1 EXCEPT !.counts[m] = Put(@, key, PyAdd(Get(@, key, PyInt(0)), value))]

\* Counter.inc
Counter_inc(S, m, value, labels) ==
    IF PyLess(value, PyInt(0)) THEN Raise(S, "ValueError")
    ELSE IF ~check_labels(m, labels) THEN Raise(S, "ValueError")
    ELSE LET key == encode_labels(m, labels)
             current_value == Get(S.counts[m], key, PyInt(0))
             new_value == PyAdd(current_value, value)
             S1 == [S EXCEPT !.counts[m] = Put(@, key, new_value)]
         IN propagate(S1, m, <<UpdateAction(make_redis_key(m, <<>>, key), new_value, FALSE)>>)

\* set() as it would be if its intent were an increment.
Gauge_set_AsIncrement(S, m, value, labels) ==
    IF ~check_labels(m, labels) THEN Raise(S, "ValueError")
    ELSE LET key == encode_labels(m, labels)
             S1 == [S EXCEPT !.counts[m] = Put(@, key, value)]
             S2 == propagate(S1, m, <<UpdateAction(make_redis_key(m, <<>>, key), value, FALSE)>>)
         IN IF S2.exc # "ok" THEN S2
            ELSE [S2 EXCEPT !.set_command_issued[m] = @ \cup {key}]

\* Gauge.set
Gauge_set(S, m, value, labels) ==
    IF ~check_labels(m, labels) THEN Raise(S, "ValueError")
    ELSE LET key == encode_labels(m, labels)
             S1 == [S EXCEPT !.counts[m] = Put(@, key, value)]
             S2 == propagate(S1, m, <<UpdateAction(make_redis_key(m, <<>>, key), value, TRUE)>>)
         IN IF S2.exc # "ok" THEN S2
            ELSE [S2 EXCEPT !.set_command_issued[m] = @ \cup {key}]

\* Gauge._check_set_command_issued
check_set_command_issued(S, m, label_combination) ==
    label_combination \in S.set_command_issued[m]

\* Gauge.inc
Gauge_inc(S, m, value, labels) ==
    IF PyLess(value, PyInt(0)) THEN Raise(S, "ValueError")
    ELSE IF ~check_labels(m, labels) THEN Raise(S, "ValueError")
    ELSE LET key == encode_labels(m, labels)
             current_value == Get(S.counts[m], key, PyInt(0))
             new_value == PyAdd(current_value, value)
         IN IF check_set_command_issued(S, m, key) THEN Gauge_set(S, m, new_value, labels)
            ELSE propagate([S EXCEPT !.counts[m] = Put(@, key, new_value)], m,
                           <<UpdateAction(make_redis_key(m, <<>>, key), new_value, FALSE)>>)

\* dec() as it would be without the check of the sign of value.
Gauge_dec_AnyValue(S, m, value, labels) ==
    IF ~check_labels(m, labels) THEN Raise(S, "ValueError")
    ELSE LET key == encode_labels(m, labels)
             current_value == Get(S.counts[m], key, PyInt(0))
             new_value == PySub(current_value, value)
         IN IF check_set_command_issued(S, m, key) THEN Gauge_set(S, m, new_value, labels)
            ELSE propagate([S EXCEPT !.counts[m] = Put(@, key, new_value)], m,
                           <<UpdateAction(make_redis_key(m, <<>>, key), new_value, FALSE)>>)

\* Gauge.dec
Gauge_dec(S, m, value, labels) ==
    IF PyLess(value, PyInt(0)) THEN Raise(S, "ValueError")
    ELSE IF ~check_labels(m, labels) THEN Raise(S, "ValueError")
    ELSE LET key == encode_labels(m, labels)
             current_value == Get(S.counts[m], key, PyInt(0))
             new_value == PySub(current_value, value)
         IN IF check_set_command_issued(S, m, key) THEN Gauge_set(S, m, new_value, labels)
            ELSE propagate([S EXCEPT !.counts[m] = Put(@, key, new_value)], m,
                           <<UpdateAction(make_redis_key(m, <<>>, key), new_value, FALSE)>>)

\* {**bucket_label, **metric_labels}: a label named le in metric_labels replaces
\* the value of the bucket label and keeps its place.
MergeLabels(bucket_label, metric_labels) ==
    LET same == {i \in 1..Len(metric_labels) : metric_labels[i][1] = bucket_label[1]}
    IN IF same = {} THEN <<bucket_label>> \o metric_labels
       ELSE <<metric_labels[CHOOSE i \in same : TRUE]>>
            \o SelectSeq(metric_labels, LAMBDA it : it[1] # bucket_label[1])

\* Histogram._add_observed_value; bucket is the text the label value formats to.
add_observed_value(S, m, bucket, labels) ==
    LET bucket_label == <<HISTOGRAM_LABEL, bucket>>
        all_labels == MergeLabels(bucket_label, labels)
    IN IF ~check_labels(m, all_labels) THEN Raise(S, "ValueError")
       ELSE LET count_key == encode_labels(m, all_labels)
                current_value == Get(S.counts[m], count_key, PyInt(0))
                new_value == PyAdd(current_value, PyInt(1))
                S1 == [S EXCEPT !.counts[m] = Put(@, count_key, new_value)]
            IN propagate(S1, m, <<UpdateAction(make_redis_key(m, <<"b">>, count_key),
                                               new_value, FALSE)>>)

\* _add_to_histogram_sum() as it would be with the observed value as the intent
\* instead of the new local sum.
add_to_histogram_sum_Delta(S, m, value) ==
    LET S1 == [S EXCEPT !.sum[m] = PyAdd(@, value)]
    IN propagate(S1, m, <<UpdateAction(make_redis_key(m, <<"s">>, <<>>), value, FALSE)>>)

\* _add_to_histogram_sum() as it would be with set=True on its intent.
add_to_histogram_sum_AbsoluteSet(S, m, value) ==
    LET S1 == [S EXCEPT !.sum[m] = PyAdd(@, value)]
    IN propagate(S1, m, <<UpdateAction(make_redis_key(m, <<"s">>, <<>>), S1.sum[m], TRUE)>>)

\* Histogram._add_to_histogram_sum
add_to_histogram_sum(S, m, value) ==
    LET S1 == [S EXCEPT !.sum[m] = PyAdd(@, value)]
    IN propagate(S1, m, <<UpdateAction(make_redis_key(m, <<"s">>, <<>>), S1.sum[m], FALSE)>>)

\* 'le="+Inf"'
InfCountKey == HISTOGRAM_LABEL \o <<"=", "\"">> \o INFINITY_FOR_HISTOGRAM \o <<"\"">>

\* Histogram._increase_total_count, its second statement: the propagate of
\* self.counts.get('le="+Inf"') under the extension c
propagate_total_count(S, m) ==
    propagate(S, m,
        <<UpdateAction(make_redis_key(m, <<"c">>, <<>>),
                       IF InfCountKey \in DOMAIN S.counts[m]
                       THEN S.counts[m][InfCountKey] ELSE PyNone,
                       FALSE)>>)

\* Histogram._increase_total_count
increase_total_count(S, m) ==
    LET S1 == add_observed_value(S, m, INFINITY_FOR_HISTOGRAM, <<>>)
    IN IF S1.exc # "ok" THEN S1 ELSE propagate_total_count(S1, m)

\* The loop of observe() as it would be with bucket > value.
RECURSIVE observe_buckets_Strict(_, _, _, _, _)
observe_buckets_Strict(S, m, bs, value, labels) ==
    IF bs = <<>> \/ S.exc # "ok" THEN S
    ELSE observe_buckets_Strict(IF PyLess(value, PyInt(Head(bs)))
                                THEN add_observed_value(S, m, IntToStr(Head(bs)), labels)
                                ELSE S,
                                m, Tail(bs), value, labels)

\* Histogram.observe: for bucket in self.buckets: if bucket >= value: ...
RECURSIVE observe_buckets(_, _, _, _, _)
observe_buckets(S, m, bs, value, labels) ==
    IF bs = <<>> \/ S.exc # "ok" THEN S
    ELSE observe_buckets(IF PyGe(PyInt(Head(bs)), value)
                         THEN add_observed_value(S, m, IntToStr(Head(bs)), labels)
                         ELSE S,
                         m, Tail(bs), value, labels)

\* Histogram.observe
Histogram_observe(S, m, value, labels) ==
    LET S1 == observe_buckets(S, m, buckets(m), value, labels)
        S2 == IF S1.exc # "ok" THEN S1 ELSE add_to_histogram_sum(S1, m, value)
    IN IF S2.exc # "ok" THEN S2 ELSE increase_total_count(S2, m)

\* The propagate calls observe(value) makes, in the order it makes them: one for
\* each bucket >= value, one for the sum, one for the bucket +Inf and one for
\* the total count.  In an eager registry each of them waits for Redis.
ObserveSteps(m, value) ==
    LET bs == SelectSeq(buckets(m), LAMBDA b : PyGe(PyInt(b), value))
    IN [i \in 1..Len(bs) |-> [kind |-> "bucket", bucket |-> IntToStr(bs[i])]]
       \o <<[kind |-> "sum", bucket |-> <<>>],
            [kind |-> "inf", bucket |-> INFINITY_FOR_HISTOGRAM],
            [kind |-> "count", bucket |-> <<>>]>>

\* Histogram.observe from the return of one propagate call to the return of the
\* next one.
observe_step(S, m, step, value, labels) ==
    CASE step.kind = "bucket" -> add_observed_value(S, m, step.bucket, labels)
      [] step.kind = "sum" -> add_to_histogram_sum(S, m, value)
      [] step.kind = "inf" -> add_observed_value(S, m, step.bucket, <<>>)
      [] OTHER -> propagate_total_count(S, m)

(***************************************************************************)
(* Inputs of the calls.                                                    *)
(***************************************************************************)
\* amounts passed to inc, dec and set: a negative one, the int 1 and the
\* float 0.5
Values == {PyInt(-1), PyInt(1), PyFloat(1)}
\* values passed to observe: the float 0.5 and the int 1 in both buckets, 2 in
\* the last bucket, 3 above every bucket
ObsValues == {PyFloat(1), PyInt(1), PyInt(2), PyInt(3)}

LNone == <<>>
LA == << <<(<<"a">>), (<<"1">>)>> >>
LAB == << <<(<<"a">>), (<<"1">>)>>, <<(<<"b">>), (<<"2">>)>> >>
LBA == << <<(<<"b">>), (<<"2">>)>>, <<(<<"a">>), (<<"1">>)>> >>
LX == << <<(<<"x">>), (<<"1">>)>> >>
LLE == << <<HISTOGRAM_LABEL, (<<"1">>)>> >>

ValidLabels == {LNone, LA, LAB, LBA}
CounterLabels == {LNone, LA, LAB, LBA, LX, LLE}

\* The orders in which Python may iterate a set of metric names.
Orders == {o \in [1..Cardinality(MetricNames) -> MetricNames] :
              \A i, j \in DOMAIN o : i # j => o[i] # o[j]}

Fails == 0..MaxFail

NamesIn(buf) == {SplitName(k) : k \in DOMAIN buf}

\* The round trips of a call on metric m that may fail: none when the call makes
\* no round trip (m unattached, or its registry not eager).
FailsOf(m) == IF registry[m] # NoRegistry /\ eager[registry[m]] THEN Fails ELSE {0}

\* The round trip of one step of a call on metric m: it fails (1) or not (0).
\* An operation of Counter or Gauge, a transfer and a step of observe make one
\* round trip at most.
StepFails(m) == IF registry[m] # NoRegistry /\ eager[registry[m]] THEN {0, 1} ELSE {0}

\* The orders in which Python may iterate the set metric_names of a transfer
\* whose buffer holds keys of the names in ns, names of no metric included.
OrdersOf(ns) == {o \in [1..Cardinality(ns) -> ns] : \A i, j \in DOMAIN o : i # j => o[i] # o[j]}

OrdersOfCall(m) ==
    IF registry[m] # NoRegistry /\ eager[registry[m]]
    THEN OrdersOf(NamesIn(buffer[registry[m]]) \cup {name(m)})
    ELSE OrdersOf({})

(***************************************************************************)
(* From the variables to the state a handler works on, and back.           *)
(***************************************************************************)
State(f, o) ==
    [redis |-> redis, eager |-> eager, metrics |-> metrics, buffer |-> buffer,
     registry |-> registry, registered_remotely |-> registered_remotely,
     counts |-> counts, set_command_issued |-> set_command_issued, sum |-> sum,
     exc |-> "ok", trace |-> <<>>, failAt |-> f, rt |-> 0, order |-> o]

\* history: the metrics that have a batch in each registry's buffer
RECURSIVE ContribAfter(_, _)
ContribAfter(c, tr) ==
    IF tr = <<>> THEN c
    ELSE LET e == Head(tr) IN
         ContribAfter(CASE e.ev = "batch" -> [c EXCEPT ![e.r] = @ \cup {e.m}]
                        [] e.ev = "clear" -> [c EXCEPT ![e.r] = {}]
                        [] OTHER -> c,
                      Tail(tr))

HasTypeDesc(m, items) ==
    /\ \E i \in 1..Len(items) : items[i].key = metric_type_key(m) /\ items[i].set
    /\ \E i \in 1..Len(items) : items[i].key = metric_description_key(m) /\ items[i].set

Min2(n) == IF n > 2 THEN 2 ELSE n

BatchesOf(m, tr) == SelectSeq(tr, LAMBDA e : e.ev = "batch" /\ e.m = m)
TdBatchesOf(m, tr) == SelectSeq(BatchesOf(m, tr), LAMBDA e : HasTypeDesc(m, e.items))

\* The methods that a metric operation, register, unregister or transfer calls
\* and that the application can call itself as well.
DirectCalls == {"reset", "update_buffer", "propagate", "add_registry", "remove_registry"}

\* p: the position of the process after the step
CommitAt(T, c, p) ==
    /\ redis' = T.redis
    /\ eager' = T.eager
    /\ metrics' = T.metrics
    /\ buffer' = T.buffer
    /\ registry' = T.registry
    /\ registered_remotely' = T.registered_remotely
    /\ counts' = T.counts
    /\ set_command_issued' = T.set_command_issued
    /\ sum' = T.sum
    /\ exc' = T.exc
    /\ trace' = T.trace
    /\ call' = c
    /\ contrib' = ContribAfter(contrib, T.trace)
    /\ batches' = [m \in Metrics |-> Min2(batches[m] + Len(BatchesOf(m, T.trace)))]
    /\ tdbatches' = [m \in Metrics |-> Min2(tdbatches[m] + Len(TdBatchesOf(m, T.trace)))]
    /\ tdfirst' = [m \in Metrics |->
                     IF batches[m] = 0 /\ BatchesOf(m, T.trace) # <<>>
                     THEN HasTypeDesc(m, BatchesOf(m, T.trace)[1].items)
                     ELSE tdfirst[m]]
    /\ pc' = p
    /\ direct' = IF c.op \in DirectCalls THEN direct \cup {c.op} ELSE direct

\* the call returned: no step of it is left
Commit(T, c) == CommitAt(T, c, [rest |-> <<>>, done |-> T.trace])

\* The process is in no call.  The specifications with Histogram.observe have
\* one process; another client of the namespace is not held up by it.
Returned == pc.rest = <<>>

Call(op, m, r, value, labels) == [op |-> op, m |-> m, r |-> r, value |-> value, labels |-> labels]

WasReset(m, tr) == \E i \in 1..Len(tr) : tr[i].ev = "reset" /\ tr[i].m = m

\* the amount reached the metric's local state and the buffer
Accepted(T) == T.exc \notin {"ValueError", "RuntimeError"}

\* history: total holds amounts in halves
Tally(T, m, key, amount) ==
    /\ total' = IF Accepted(T) THEN [total EXCEPT ![m] = Put(@, key, Get(@, key, 0) + amount)]
                ELSE total
    /\ nops' = IF T.exc # "ValueError" THEN [nops EXCEPT ![registry[m]] = @ + 1] ELSE nops

(***************************************************************************)
(* The calls.                                                              *)
(***************************************************************************)
CounterInc(m, value, labels) ==
    /\ Returned
    /\ nops[registry[m]] < MaxOps
    /\ \E f \in StepFails(m), o \in OrdersOfCall(m) :
       \E T \in {Counter_inc(State(f, o), m, value, labels)} :
       /\ Commit(T, Call("inc", m, "-", value, labels))
       /\ Tally(T, m, encode_labels(m, labels), Halves(value))
       /\ UNCHANGED <<setcalled, observed, nregs>>

GaugeInc(m, value, labels) ==
    /\ Returned
    /\ nops[registry[m]] < MaxOps
    /\ \E f \in StepFails(m), o \in OrdersOfCall(m) :
       \E T \in {Gauge_inc(State(f, o), m, value, labels)} :
       /\ Commit(T, Call("inc", m, "-", value, labels))
       /\ Tally(T, m, encode_labels(m, labels), Halves(value))
       /\ UNCHANGED <<setcalled, observed, nregs>>

GaugeDec(m, value, labels) ==
    /\ Returned
    /\ nops[registry[m]] < MaxOps
    /\ \E f \in StepFails(m), o \in OrdersOfCall(m) :
       \E T \in {Gauge_dec(State(f, o), m, value, labels)} :
       /\ Commit(T, Call("dec", m, "-", value, labels))
       /\ Tally(T, m, encode_labels(m, labels), -Halves(value))
       /\ UNCHANGED <<setcalled, observed, nregs>>

GaugeSet(m, value, labels) ==
    /\ Returned
    /\ nops[registry[m]] < MaxOps
    /\ \E f \in StepFails(m), o \in OrdersOfCall(m) :
       \E T \in {Gauge_set(State(f, o), m, value, labels)} :
       /\ Commit(T, Call("set", m, "-", value, labels))
       /\ Tally(T, m, encode_labels(m, labels), 0)
       /\ setcalled' = IF T.exc # "ValueError"
                       THEN [setcalled EXCEPT ![m] = @ \cup {encode_labels(m, labels)}]
                       ELSE setcalled
       /\ UNCHANGED <<observed, nregs>>

\* history: an observation is the value and the encoded labels of an observe
\* call that returned; a reset of the histogram forgets them.  total counts the
\* value (in halves) when the sum was propagated and the call when it returned.
ObserveTally(T, m, value, labels, summed, returned, whole) ==
    /\ total' = [total EXCEPT ![m] =
                    LET t1 == IF summed /\ T.exc = "ok"
                              THEN Put(@, <<"s">>, Get(@, <<"s">>, 0) + Halves(value)) ELSE @
                    IN IF returned /\ T.exc = "ok"
                       THEN Put(t1, <<"c">>, Get(t1, <<"c">>, 0) + 1) ELSE t1]
    /\ observed' = [observed EXCEPT ![m] =
                       LET ob == <<value, encode_labels(m, labels)>>
                           kept == IF WasReset(m, T.trace) THEN EmptyDict ELSE @
                       IN IF returned /\ T.exc = "ok" /\ ~WasReset(m, whole)
                          THEN Put(kept, ob, Get(kept, ob, 0) + 1)
                          ELSE kept]

\* Histogram.observe is called.  In a registry that is not eager the call makes
\* no round trip and returns in this step; in an eager registry the step ends
\* when the first propagate call returns from its round trip, and the process
\* is then inside observe with the other propagate calls to make.
Observe(m, value, labels) ==
    /\ Returned
    /\ nops[registry[m]] < MaxOps
    /\ \E f \in StepFails(m), o \in OrdersOfCall(m) :
       LET waits == registry[m] # NoRegistry /\ eager[registry[m]]
           steps == ObserveSteps(m, value)
       IN \E T \in {IF waits THEN observe_step(State(f, o), m, Head(steps), value, labels)
                    ELSE Histogram_observe(State(f, o), m, value, labels)} :
          LET rest == IF waits /\ T.exc = "ok" THEN Tail(steps) ELSE <<>> IN
          /\ CommitAt(T, Call("observe", m, "-", value, labels), [rest |-> rest, done |-> T.trace])
          /\ ObserveTally(T, m, value, labels,
                          ~waits \/ Head(steps).kind = "sum", rest = <<>>, T.trace)
          /\ nops' = IF T.exc # "ValueError" THEN [nops EXCEPT ![registry[m]] = @ + 1] ELSE nops
          /\ UNCHANGED <<setcalled, nregs>>

\* The observe in progress makes its next propagate call, which returns from
\* its round trip or raises; the call returns after the last one.
ObserveResume ==
    /\ ~Returned
    /\ \E f \in StepFails(call.m), o \in OrdersOfCall(call.m) :
       \E T \in {observe_step(State(f, o), call.m, Head(pc.rest), call.value, call.labels)} :
          LET rest == IF T.exc = "ok" THEN Tail(pc.rest) ELSE <<>> IN
          /\ CommitAt(T, call, [rest |-> rest, done |-> pc.done \o T.trace])
          /\ ObserveTally(T, call.m, call.value, call.labels,
                          Head(pc.rest).kind = "sum", rest = <<>>, pc.done \o T.trace)
          /\ UNCHANGED <<setcalled, nregs, nops>>

Register(r, m) ==
    /\ Returned
    /\ nregs < MaxRegs
    /\ \E T \in {register(State(0, CHOOSE o \in Orders : TRUE), r, m)} :
       /\ Commit(T, Call("register", m, r, PyNone, <<>>))
       /\ nregs' = nregs + 1
       /\ UNCHANGED <<total, setcalled, observed, nops>>

Unregister(r, m) ==
    /\ Returned
    /\ nregs < MaxRegs
    /\ \E T \in {unregister(State(0, CHOOSE o \in Orders : TRUE), r, m)} :
       /\ Commit(T, Call("unregister", m, r, PyNone, <<>>))
       /\ nregs' = nregs + 1
       /\ UNCHANGED <<total, setcalled, observed, nops>>

Transfer(r) ==
    /\ Returned
    /\ \A k \in DOMAIN redis : redis[k].int <= MaxRemote /\ redis[k].half <= 2 * MaxRemote
    /\ \E f \in {0, 1}, o \in OrdersOf(NamesIn(buffer[r])) :
       \E T \in {transfer(State(f, o), r)} :
          /\ Commit(T, Call("transfer", "-", r, PyNone, <<>>))
          /\ observed' = [m \in Metrics |-> IF WasReset(m, T.trace) THEN EmptyDict ELSE observed[m]]
          /\ UNCHANGED <<total, setcalled, nregs, nops>>

\* The application calls Counter.reset, Gauge.reset or Histogram.reset itself.
Reset(m) ==
    /\ Returned
    /\ \E T \in {reset(State(0, <<>>), m)} :
       /\ Commit(T, Call("reset", m, "-", PyNone, <<>>))
       /\ observed' = [x \in Metrics |-> IF WasReset(x, T.trace) THEN EmptyDict ELSE observed[x]]
       /\ UNCHANGED <<total, setcalled, nregs, nops>>

\* The batch tests/test_registry.py hands to update_buffer: one increment
\* intent whose key names no metric.
TestBatch == <<UpdateAction(<<"t", "e", "s", "t">>, PyInt(1), FALSE)>>

\* The application calls CollectorRegistry.update_buffer itself.
UpdateBuffer(r, to_update) ==
    /\ Returned
    /\ nops[r] < MaxOps
    /\ \A k \in DOMAIN redis : redis[k].int <= MaxRemote /\ redis[k].half <= 2 * MaxRemote
    /\ \E f \in (IF eager[r] THEN {0, 1} ELSE {0}),
          o \in (IF eager[r] THEN OrdersOf(NamesIn(BufferPut(buffer[r], to_update))) ELSE {<<>>}) :
       \E T \in {update_buffer(State(f, o), r, to_update)} :
          /\ Commit(T, Call("update_buffer", "-", r, PyNone, <<>>))
          /\ observed' = [m \in Metrics |-> IF WasReset(m, T.trace) THEN EmptyDict ELSE observed[m]]
          /\ nops' = [nops EXCEPT ![r] = @ + 1]
          /\ UNCHANGED <<total, setcalled, nregs>>

\* The application calls Metric.propagate itself.
Propagate(m, update_actions) ==
    /\ Returned
    /\ nops[registry[m]] < MaxOps
    /\ \A k \in DOMAIN redis : redis[k].int <= MaxRemote /\ redis[k].half <= 2 * MaxRemote
    /\ \E f \in StepFails(m),
          o \in (IF registry[m] # NoRegistry /\ eager[registry[m]]
                 THEN OrdersOf(NamesIn(BufferPut(buffer[registry[m]], update_actions))
                               \cup {name(m)})
                 ELSE {<<>>}) :
       \E T \in {propagate(State(f, o), m, update_actions)} :
          /\ Commit(T, Call("propagate", m, "-", PyNone, <<>>))
          /\ observed' = [x \in Metrics |-> IF WasReset(x, T.trace) THEN EmptyDict ELSE observed[x]]
          /\ nops' = [nops EXCEPT ![registry[m]] = @ + 1]
          /\ UNCHANGED <<total, setcalled, nregs>>

\* The application calls Metric.add_registry itself.
AddRegistry(m, r) ==
    /\ Returned
    /\ \E T \in {add_registry(State(0, <<>>), m, r)} :
       /\ Commit(T, Call("add_registry", m, r, PyNone, <<>>))
       /\ UNCHANGED <<total, setcalled, observed, nregs, nops>>

\* The application calls Metric.remove_registry itself.
RemoveRegistry(m) ==
    /\ Returned
    /\ \E T \in {remove_registry(State(0, <<>>), m)} :
       /\ Commit(T, Call("remove_registry", m, "-", PyNone, <<>>))
       /\ UNCHANGED <<total, setcalled, observed, nregs, nops>>

(***************************************************************************)
(* Initial states: the registries and metrics as constructed, and metric m *)
(* registered in registry reg[m] (NoRegistry: in none).                    *)
(***************************************************************************)
InitWith(eg, reg) ==
    /\ redis = EmptyDict
    /\ eager = eg
    /\ metrics = [r \in Registries |->
                    [n \in {name(m) : m \in {x \in Metrics : reg[x] = r}} |->
                        CHOOSE m \in Metrics : reg[m] = r /\ name(m) = n]]
    /\ buffer = [r \in Registries |-> EmptyDict]
    /\ registry = reg
    /\ registered_remotely = [m \in Metrics |-> FALSE]
    /\ counts = [m \in Metrics |->
                   IF Kind(m) = "Histogram" THEN EmptyDict
                   ELSE Put(EmptyDict, NO_LABELS_KEY, PyInt(0))]
    /\ set_command_issued = [m \in Metrics |-> {}]
    /\ sum = [m \in Metrics |-> PyInt(0)]
    /\ exc = "ok"
    /\ trace = <<>>
    /\ call = Call("init", "-", "-", PyNone, <<>>)
    /\ total = [m \in Metrics |-> EmptyDict]
    /\ contrib = [r \in Registries |-> {}]
    /\ batches = [m \in Metrics |-> 0]
    /\ tdbatches = [m \in Metrics |-> 0]
    /\ tdfirst = [m \in Metrics |-> FALSE]
    /\ setcalled = [m \in Metrics |-> {}]
    /\ observed = [m \in Metrics |-> EmptyDict]
    /\ nregs = 0
    /\ nops = [r \in Registries \cup {NoRegistry} |-> 0]
    /\ pc = [rest |-> <<>>, done |-> <<>>]
    /\ direct = {}

Unregistered == [m \in Metrics |-> NoRegistry]

(***************************************************************************)
(* One process: Counter c1 registered in registry r1, eager or not.  The   *)
(* application increments c1 and flushes, and may call c1.reset(),         *)
(* r1.update_buffer() and c1.propagate() itself.                           *)
(***************************************************************************)
InitCounter ==
    \E e \in BOOLEAN :
        InitWith([r \in Registries |-> e /\ r = "r1"], [Unregistered EXCEPT !["c1"] = "r1"])

NextCounter ==
    \/ \E v \in Values, l \in CounterLabels : CounterInc("c1", v, l)
    \/ Transfer("r1")
    \/ Reset("c1")
    \/ UpdateBuffer("r1", TestBatch)
    \/ Propagate("c1", TestBatch)

SpecCounter == InitCounter /\ [][NextCounter]_vars

\* The runs of SpecCounter in which Redis rejects no queued command: every flush
\* either succeeds or fails in its round trip with nothing applied.  (An int
\* amount queued as HINCRBY for a field that holds the text of a float, such as
\* '0.5', is rejected after the other commands of the pipeline were applied.)
NextCounterOk == NextCounter /\ exc' # "ResponseError"

SpecCounterOk == InitCounter /\ [][NextCounterOk]_vars

\* The integer Redis holds under a key; a missing field reads as 0.
RemoteInt(key) == IF key \in DOMAIN redis THEN redis[key].int ELSE 0

\* The number Redis holds under a key, in halves; a missing field reads as 0.
RemoteHalves(key) == IF key \in DOMAIN redis THEN Halves(redis[key]) ELSE 0
RemoteIsNumber(key) == key \in DOMAIN redis => redis[key].kind \in {"int", "float"}

\* C1: for Counter c1 registered in registry r1, written by no other process,
\* after inc calls and flushes only (the application has not called reset,
\* update_buffer or propagate itself) of which Redis rejected none, whenever the
\* buffer is empty the number Redis holds under the key of each label combination
\* is the sum of all amounts, int or float, inc accepted for that combination.
C1_CounterRemoteIsSum ==
    (direct = {} /\ buffer["r1"] = EmptyDict) =>
        \A l \in ValidLabels :
            LET key == encode_labels("c1", l) IN
            /\ RemoteIsNumber(make_redis_key("c1", <<>>, key))
            /\ RemoteHalves(make_redis_key("c1", <<>>, key)) = Get(total["c1"], key, 0)

\* Several inc calls were coalesced into one flush, and Redis has their sum.
C1_Witness ==
    /\ direct = {}
    /\ ~eager["r1"]
    /\ buffer["r1"] = EmptyDict
    /\ call.op = "transfer"
    /\ nops["r1"] = MaxOps
    /\ RemoteInt(make_redis_key("c1", <<>>, encode_labels("c1", LAB))) = MaxOps

(***************************************************************************)
(* One process: Gauge g1 registered in registry r1, eager or not.          *)
(***************************************************************************)
InitGauge ==
    \E e \in BOOLEAN :
        InitWith([r \in Registries |-> e /\ r = "r1"], [Unregistered EXCEPT !["g1"] = "r1"])

GaugeLabels == {LNone, LA, LX}

NextGauge ==
    \/ \E v \in Values, l \in GaugeLabels : GaugeInc("g1", v, l)
    \/ \E v \in Values, l \in GaugeLabels : GaugeDec("g1", v, l)
    \/ \E v \in Values, l \in GaugeLabels : GaugeSet("g1", v, l)
    \/ Transfer("r1")

SpecGauge == InitGauge /\ [][NextGauge]_vars

\* C2: for a label combination of Gauge g1 that set() was never called for,
\* whenever the buffer is empty Redis holds the sum of the increments minus the
\* sum of the decrements, which is the gauge's local value.
C2_GaugeRemoteIsNet ==
    buffer["r1"] = EmptyDict =>
        \A l \in {LNone, LA} :
            LET key == encode_labels("g1", l) IN
            key \notin setcalled["g1"] =>
                /\ RemoteHalves(make_redis_key("g1", <<>>, key)) = Get(total["g1"], key, 0)
                /\ RemoteHalves(make_redis_key("g1", <<>>, key))
                       = Halves(Get(counts["g1"], key, PyInt(0)))

\* The first intent of the first batch the last call propagated.
FirstIntent(tr) == tr[1].items[1]
Propagated(tr) == tr # <<>> /\ tr[1].ev = "batch"

\* C7: set-mode of Gauge g1 is permanent and per label combination: no label
\* combination leaves set-mode and a set() that returns has put its combination
\* in it; every inc and dec for a combination that set() has been called for
\* (whether or not that call returned) emits an absolute-set intent, every inc
\* and dec for a combination set() was never called for an increment intent,
\* and the intent carries the new local value.
C7_SetModePermanent ==
    [][/\ set_command_issued["g1"] \subseteq set_command_issued'["g1"]
       /\ (call'.op = "set" /\ exc' = "ok") =>
              encode_labels("g1", call'.labels) \in set_command_issued'["g1"]
       /\ (call'.op \in {"inc", "dec"} /\ Propagated(trace')) =>
              LET key == encode_labels("g1", call'.labels)
                  intent == FirstIntent(trace')
              IN /\ intent.key = make_redis_key("g1", <<>>, key)
                 /\ intent.value = counts'["g1"][key]
                 /\ key \in setcalled["g1"] => intent.set
                 /\ key \notin setcalled["g1"] => ~intent.set
      ]_vars

(***************************************************************************)
(* One process: Histogram h1 registered in registry r1, eager or not.  The *)
(* application observes and flushes, and may call h1.reset() itself.       *)
(***************************************************************************)
InitHist ==
    \E e \in BOOLEAN :
        InitWith([r \in Registries |-> e /\ r = "r1"], [Unregistered EXCEPT !["h1"] = "r1"])

HistLabels == {LNone, LA, LX}

NextHist ==
    \/ \E v \in ObsValues, l \in HistLabels : Observe("h1", v, l)
    \/ ObserveResume
    \/ Transfer("r1")
    \/ Reset("h1")

SpecHist == InitHist /\ [][NextHist]_vars

RECURSIVE SumOver(_, _)
SumOver(f, D) ==
    IF D = {} THEN 0
    ELSE LET x == CHOOSE y \in D : TRUE IN f[x] + SumOver(f, D \ {x})

\* history: the observations since the last reset that satisfy P, counted
ObservedCount(m, P(_)) == SumOver(observed[m], {ob \in DOMAIN observed[m] : P(ob)})
\* history: the total of the values observed since the last reset, in halves
ObservedSum(m) ==
    SumOver([ob \in DOMAIN observed[m] |-> Halves(ob[1]) * observed[m][ob]], DOMAIN observed[m])

BucketCountKey(m, b, l) ==
    encode_labels(m, MergeLabels(<<HISTOGRAM_LABEL, IntToStr(b)>>, l))

\* C9: in a non-eager registry the local count of Histogram h1 for boundary b and
\* label combination l is the number of observations since the last reset with
\* labels l and a value <= b, the le="+Inf" count is the number of all
\* observations, and sum is the total of the observed values.
C9_CumulativeBuckets ==
    ~eager["r1"] =>
        /\ \A i \in 1..Len(buckets("h1")), l \in {LNone, LA} :
               LET b == buckets("h1")[i] IN
               Get(counts["h1"], BucketCountKey("h1", b, l), PyInt(0))
                   = PyInt(ObservedCount("h1", LAMBDA ob : /\ ob[2] = encode_labels("h1", l)
                                                          /\ PyGe(PyInt(b), ob[1])))
        /\ Get(counts["h1"], InfCountKey, PyInt(0)) = PyInt(ObservedCount("h1", LAMBDA ob : TRUE))
        /\ Halves(sum["h1"]) = ObservedSum("h1")

\* Two observations with labels a="1": 1 and 2; the bucket le="1" counts one of
\* them, the bucket le="2" both.
C9_Witness ==
    /\ ~eager["r1"]
    /\ call.op = "observe"
    /\ Get(observed["h1"], <<PyInt(1), encode_labels("h1", LA)>>, 0) = 1
    /\ Get(observed["h1"], <<PyInt(2), encode_labels("h1", LA)>>, 0) = 1
    /\ Get(counts["h1"], BucketCountKey("h1", 1, LA), PyInt(0)) = PyInt(1)
    /\ Get(counts["h1"], BucketCountKey("h1", 2, LA), PyInt(0)) = PyInt(2)
    /\ Get(counts["h1"], InfCountKey, PyInt(0)) = PyInt(2)

\* C10: whenever the buffer is empty, the total-observation count in Redis
\* (extension c) equals the bucket count for le="+Inf" (extension b), and both
\* equal the number of observe calls made.
C10_TotalCountIsInfBucket ==
    buffer["r1"] = EmptyDict =>
        /\ RemoteInt(make_redis_key("h1", <<"c">>, <<>>))
               = RemoteInt(make_redis_key("h1", <<"b">>, InfCountKey))
        /\ RemoteInt(make_redis_key("h1", <<"c">>, <<>>)) = Get(total["h1"], <<"c">>, 0)

(***************************************************************************)
(* One process and registry r1, eager or not: the application registers    *)
(* and unregisters the Counters c1 and c2, which have the same name,       *)
(* increments them, sets Gauge g1 and flushes.  At the start c1 and g1     *)
(* are registered in r1.                                                   *)
(***************************************************************************)
InitRegistry ==
    \E e \in BOOLEAN :
        InitWith([r \in Registries |-> e /\ r = "r1"],
                 [m \in Metrics |-> IF m \in {"c1", "g1"} THEN "r1" ELSE NoRegistry])

OpsTotal == nops["r1"] + nops["r2"] + nops[NoRegistry]

NextRegistry ==
    \/ \E m \in {"c1", "c2"} : Register("r1", m)
    \/ \E m \in {"c1", "c2"} : Unregister("r1", m)
    \/ \E m \in {"c1", "c2"} : OpsTotal < MaxOps /\ CounterInc(m, PyInt(1), LNone)
    \/ OpsTotal < MaxOps /\ GaugeSet("g1", PyInt(2), LNone)
    \/ Transfer("r1")

SpecRegistry == InitRegistry /\ [][NextRegistry]_vars

\* The local state of the metrics.
MetricState == <<counts, sum, set_command_issued, registered_remotely>>

\* The local state of metric m after its reset().
IsReset(m, cs, sm) ==
    CASE Kind(m) = "Counter" -> cs[m] = Put(EmptyDict, NO_LABELS_KEY, PyInt(0))
      [] Kind(m) = "Histogram" -> cs[m] = EmptyDict /\ sm[m] = PyInt(0)
      [] OTHER -> TRUE

\* C4: every call to flush is all-or-nothing: it ends either with the remote
\* operations applied, the buffer empty and the metrics named in the buffer
\* reset, or with the remote store untouched and the buffer and all metric state
\* unchanged.
C4_FlushAllOrNothing ==
    [][\A r \in Registries :
         (call'.op = "transfer" /\ call'.r = r) =>
            \/ /\ exc' = "ok"
               /\ redis' = pipe_execute(redis, buffer[r])
               /\ buffer'[r] = EmptyDict
               /\ \A n \in NamesIn(buffer[r]) : IsReset(metrics[r][n], counts', sum')
            \/ /\ exc' # "ok"
               /\ redis' = redis
               /\ buffer' = buffer
               /\ MetricState' = MetricState]_vars

\* C5: a flush whose round trip fails raises the error and leaves the remote
\* store, the buffer and every metric as they were, so that a retried flush that
\* succeeds ends in the state the flush would have reached without the failed
\* attempt; a metric operation of an eager registry whose round trip fails leaves
\* the remote store as it was and resets no metric.
\* The state of a process whose registries and index are as now and whose remote
\* store, buffers and metrics are the given ones.
StateWith(rd, bf, ms, o) ==
    [State(0, o) EXCEPT !.redis = rd, !.buffer = bf, !.counts = ms[1], !.sum = ms[2],
                        !.set_command_issued = ms[3], !.registered_remotely = ms[4]]

Outcome(T) ==
    <<T.exc, T.redis, T.buffer, T.counts, T.sum, T.set_command_issued, T.registered_remotely>>

C5_FailedFlushKeepsState ==
    [][exc' = "TransportError" =>
         /\ redis' = redis
         /\ \A i \in 1..Len(trace') : trace'[i].ev \notin {"exec", "reset", "clear"}
         /\ \A r \in Registries :
               (call'.op = "transfer" /\ call'.r = r) =>
                  /\ buffer' = buffer
                  /\ MetricState' = MetricState
                  /\ <<eager', metrics', registry'>> = <<eager, metrics, registry>>
                  /\ \A o \in Orders :
                        \E T1 \in {transfer(State(0, o), r)} :
                        \E T2 \in {transfer(StateWith(redis', buffer', MetricState', o), r)} :
                           Outcome(T2) = Outcome(T1)]_vars

\* A flush of a buffer that holds intents of two metrics has failed in the round
\* trip.
C5_Witness ==
    /\ call.op = "transfer"
    /\ exc = "TransportError"
    /\ Cardinality(NamesIn(buffer["r1"])) = 2
    /\ redis = EmptyDict

\* C6: a successful flush leaves the buffer empty, resets exactly the metrics that
\* contributed a key to it, leaves the local state of every other metric
\* unchanged, and leaves every Gauge's values and set-mode flags unchanged.
C6_FlushResetsContributors ==
    [][\A r \in Registries :
         (call'.op = "transfer" /\ call'.r = r /\ exc' = "ok") =>
            /\ buffer'[r] = EmptyDict
            /\ \A m \in Metrics :
                  IF m \in contrib[r] /\ Kind(m) # "Gauge"
                  THEN IsReset(m, counts', sum')
                  ELSE /\ counts'[m] = counts[m]
                       /\ sum'[m] = sum[m]
                       /\ set_command_issued'[m] = set_command_issued[m]]_vars

(***************************************************************************)
(* Two processes that share one Redis namespace: the first has registry r1 *)
(* with Counter c1 and Gauge g1, the second has registry r2 with Counter   *)
(* c2 and Gauge g2.  c1 and c2 have the same name, and so have g1 and g2.  *)
(* Each registry is eager or not.  A step is one call of one process; its  *)
(* round trip is one MULTI/EXEC transaction of Redis.                      *)
(***************************************************************************)
TwoProcLabels == {LNone}

InitTwoProc ==
    \E e \in [Registries -> BOOLEAN] :
        InitWith(e, [m \in Metrics |-> CASE m \in {"c1", "g1"} -> "r1"
                                          [] m \in {"c2", "g2"} -> "r2"
                                          [] OTHER -> NoRegistry])

\* the amounts of the two processes differ, so that Redis shows whose were
\* applied: the first process passes the float 0.5, the second the int 2
Amount(m) == IF m \in {"c1", "g1"} THEN PyFloat(1) ELSE PyInt(2)

NextTwoProc ==
    \/ \E m \in {"c1", "c2"}, l \in TwoProcLabels : CounterInc(m, Amount(m), l)
    \/ \E m \in {"g1", "g2"} : GaugeSet(m, Amount(m), LNone)
    \/ \E r \in Registries : Transfer(r)

SpecTwoProc == InitTwoProc /\ [][NextTwoProc]_vars

C8_TypeAndDescriptionOnce ==
    \A m \in Metrics :
        /\ batches[m] = 0 => tdbatches[m] = 0
        /\ batches[m] >= 1 => tdfirst[m] /\ tdbatches[m] = 1

\* h1 propagated its first batches, they were flushed, and batches it propagated
\* after the flush are in the buffer without the two intents.
C8_Witness ==
    /\ batches["h1"] = 2
    /\ tdfirst["h1"] /\ tdbatches["h1"] = 1
    /\ metric_type_key("h1") \in DOMAIN redis
    /\ metric_description_key("h1") \in DOMAIN redis
    /\ buffer["r1"] # EmptyDict
    /\ metric_type_key("h1") \notin DOMAIN buffer["r1"]
    /\ metric_description_key("h1") \notin DOMAIN buffer["r1"]

(***************************************************************************)
(* Histogram h1 in registry r1, eager or not, in the runs in which every   *)
(* round trip succeeds and Redis rejects no queued command.                *)
(***************************************************************************)
NextHistOk == NextHist /\ exc' \notin {"TransportError", "ResponseError"}

SpecHistOk == InitHist /\ [][NextHistOk]_vars

\* C11: after observe calls and flushes only (the application has not called
\* reset itself), when every flush succeeded, whenever the buffer is empty the sum Redis
\* holds for Histogram h1 (extension s) is the total of all values observed since
\* h1 was created, not only of those observed since the last flush.
C11_RemoteSumIsTotal ==
    (direct = {} /\ buffer["r1"] = EmptyDict) =>
        /\ RemoteIsNumber(make_redis_key("h1", <<"s">>, <<>>))
        /\ RemoteHalves(make_redis_key("h1", <<"s">>, <<>>)) = Get(total["h1"], <<"s">>, 0)

\* In an eager registry observe(1) and observe(0.5) were flushed one after the
\* other, the first sum by HINCRBY and the second by HINCRBYFLOAT, each flush
\* reset the local sum, and Redis holds the text 1.5 of the sum of both values.
C11_Witness ==
    /\ direct = {}
    /\ eager["r1"]
    /\ buffer["r1"] = EmptyDict
    /\ nops["r1"] = 2
    /\ Get(total["h1"], <<"c">>, 0) = 2
    /\ Get(total["h1"], <<"s">>, 0) = Halves(PyFloat(3))
    /\ sum["h1"] = PyInt(0)
    /\ redis[make_redis_key("h1", <<"s">>, <<>>)] = PyFloat(3)

(***************************************************************************)
(* One process: Counter c1, Gauge g1 and Histogram h1 registered in        *)
(* registry r1, eager or not, operated with the labels a and b given in    *)
(* both orders.                                                            *)
(***************************************************************************)
InitLabels ==
    \E e \in BOOLEAN :
        InitWith([r \in Registries |-> e /\ r = "r1"],
                 [m \in Metrics |-> IF m \in {"c1", "g1", "h1"} THEN "r1" ELSE NoRegistry])

BothOrders == {LAB, LBA}

NextLabels ==
    \/ \E v \in {PyInt(1), PyInt(2)}, l \in BothOrders : CounterInc("c1", v, l)
    \/ \E l \in BothOrders : GaugeInc("g1", PyInt(1), l)
    \/ \E l \in BothOrders : GaugeDec("g1", PyInt(1), l)
    \/ \E l \in BothOrders : GaugeSet("g1", PyInt(1), l)
    \/ \E l \in BothOrders : Observe("h1", PyInt(1), l)
    \/ ObserveResume
    \/ Transfer("r1")

SpecLabels == InitLabels /\ [][NextLabels]_vars

\* The operations of a metric that take labels, and the call of one.
OpsOf(m) == CASE Kind(m) = "Counter" -> {"inc"}
              [] Kind(m) = "Gauge" -> {"inc", "dec", "set"}
              [] OTHER -> {"observe"}

Apply(op, S, m, value, labels) ==
    CASE Kind(m) = "Counter" -> Counter_inc(S, m, value, labels)
      [] Kind(m) = "Gauge" /\ op = "inc" -> Gauge_inc(S, m, value, labels)
      [] Kind(m) = "Gauge" /\ op = "dec" -> Gauge_dec(S, m, value, labels)
      [] Kind(m) = "Gauge" -> Gauge_set(S, m, value, labels)
      [] OTHER -> Histogram_observe(S, m, value, labels)

\* The mappings with the items of labels in every insertion order.
Reorderings(labels) ==
    {[i \in 1..Len(labels) |-> labels[p[i]]] :
        p \in {q \in [1..Len(labels) -> 1..Len(labels)] :
                  \A i, j \in 1..Len(labels) : i # j => q[i] # q[j]}}

\* the labels of a bucket key of h1: the bucket label and the labels a and b
LLEAB == <<(<<HISTOGRAM_LABEL, <<"1">> >>)>> \o LAB

\* C12: two label mappings with the same name/value pairs in different insertion
\* order encode to the same label string, and in every state each operation of
\* each metric has the same result (exception, local entries, buffer keys and
\* values, Redis) with either mapping.
C12_EncodingOrderIndependent ==
    /\ \A l \in Reorderings(LLEAB) : encode_labels("h1", l) = encode_labels("h1", LLEAB)
    /\ \A m \in {"c1", "g1", "h1"} :
          /\ encode_labels(m, LBA) = encode_labels(m, LAB)
          /\ \A op \in OpsOf(m), v \in {PyInt(1), PyInt(2)}, f \in FailsOf(m), o \in OrdersOfCall(m) :
                Outcome(Apply(op, State(f, o), m, v, LBA))
                    = Outcome(Apply(op, State(f, o), m, v, LAB))

\* c1 was incremented by 1 and then, with b given before a, by 2: the entry
\* a="1",b="2" holds 3.
C12_Witness ==
    /\ call.op = "inc" /\ call.m = "c1" /\ call.labels = LBA /\ call.value = PyInt(2)
    /\ exc = "ok"
    /\ DOMAIN counts["c1"] =
          {NO_LABELS_KEY, <<"a", "=", "\"", "1", "\"", ",", "b", "=", "\"", "2", "\"">>}
    /\ counts["c1"][<<"a", "=", "\"", "1", "\"", ",", "b", "=", "\"", "2", "\"">>] = PyInt(3)

(***************************************************************************)
(* The exposition decoder (src/instrumentor/exposition.py).  A result is a *)
(* record whose field exc is "ok" or the exception raised.                 *)
(***************************************************************************)
\* key.split(":")
RECURSIVE Split(_)
Split(key) ==
    IF key = <<>> THEN << <<>> >>
    ELSE IF Head(key) = ":" THEN << <<>> >> \o Split(Tail(key))
    ELSE LET rest == Split(Tail(key))
         IN << <<Head(key)>> \o Head(rest) >> \o Tail(rest)

\* MetricSet._split_key: parts[1] and parts[2]; a missing part is an IndexError.
split_key(key) ==
    LET parts == Split(key)
    IN IF Len(parts) < 3 THEN [exc |-> "IndexError", ext |-> <<>>, labels |-> <<>>]
       ELSE [exc |-> "ok", ext |-> parts[2], labels |-> parts[3]]

\* val.decode() of what Redis returns for a field: the digits of an integer,
\* the text of a float
DecodeValue(v) ==
    CASE v.kind = "int" -> IntToStr(v.int)
      [] v.kind = "float" -> FloatRepr(v.half)
      [] OTHER -> v.str

\* MetricSet(name=metric_name)
MetricSet(metric_name) ==
    [name |-> metric_name, description |-> PyNone, type |-> PyNone, values |-> <<>>]

MetricValue(type, labels, value) == [type |-> type, labels |-> labels, value |-> value]

TypeName(code, old) ==
    CASE code = <<"c">> -> PyStr(<<"c", "o", "u", "n", "t", "e", "r">>)
      [] code = <<"g">> -> PyStr(<<"g", "a", "u", "g", "e">>)
      [] code = <<"h">> -> PyStr(<<"h", "i", "s", "t", "o", "g", "r", "a", "m">>)
      [] code = <<"s">> -> PyStr(<<"s", "u", "m", "m", "a", "r", "y">>)
      [] OTHER -> old

\* MetricSet.add_item: the result has the metric set in field set
add_item(ms, key, value) ==
    LET d == split_key(key) IN
    IF d.exc # "ok" THEN [exc |-> d.exc, set |-> ms]
    ELSE [exc |-> "ok",
          set |->
            CASE d.ext = <<"d">> -> [ms EXCEPT !.description = PyStr(value)]
              [] d.ext = <<"t">> -> [ms EXCEPT !.type = TypeName(value, @)]
              [] d.ext = <<"b">> ->
                   [ms EXCEPT !.values = Append(@, MetricValue(PyStr(<<"b", "u", "c", "k", "e", "t">>), d.labels, value))]
              [] d.ext = <<"c">> ->
                   [ms EXCEPT !.values = Append(@, MetricValue(PyStr(<<"c", "o", "u", "n", "t">>), d.labels, value))]
              [] d.ext = <<"s">> ->
                   [ms EXCEPT !.values = Append(@, MetricValue(PyStr(<<"s", "u", "m">>), d.labels, value))]
              [] OTHER ->
                   [ms EXCEPT !.values = Append(@, MetricValue(PyNone, d.labels, value))]]

\* sorted(...) of the key/value pairs of a hash: by key, the keys being distinct
RECURSIVE SortedKeys(_)
SortedKeys(keys) ==
    IF keys = {} THEN <<>>
    ELSE LET least == CHOOSE k \in keys : \A x \in keys \ {k} : StrLess(k, x)
         IN <<least>> \o SortedKeys(keys \ {least})

\* The loops of _get_data over the sorted pairs: groupby starts a new MetricSet
\* whenever the name of a key differs from the name of the key before it.
RECURSIVE get_data_loop(_, _, _, _)
get_data_loop(h, keys, prev, sets) ==
    IF keys = <<>> THEN [exc |-> "ok", metrics |-> sets]
    ELSE LET key == Head(keys)
             metric_name == Split(key)[1]
             begun == IF prev.kind = "str" /\ prev.str = metric_name THEN sets
                      ELSE Append(sets, MetricSet(metric_name))
             added == add_item(begun[Len(begun)], key, DecodeValue(h[key]))
         IN IF added.exc # "ok" THEN [exc |-> added.exc, metrics |-> <<>>]
            ELSE get_data_loop(h, Tail(keys), PyStr(metric_name),
                               [begun EXCEPT ![Len(begun)] = added.set])

\* ExpositionClient._get_data on the hash h of the namespace
get_data(h) == get_data_loop(h, SortedKeys(DOMAIN h), PyNone, <<>>)

(***************************************************************************)
(* The namespace as the decoder finds it: Counter c1 of registry r1,       *)
(* eager or not, writes its keys, with a label value that may hold the     *)
(* separator, and another writer of the namespace may add a field whose    *)
(* key has fewer or more than two separators.                              *)
(***************************************************************************)
LColon == << <<(<<"a">>), (<<"1", ":", "2">>)>> >>

DumpLabels == {LNone, LA, LColon}

\* no separator, one separator, three separators
ForeignKeys == {<<"x">>, <<"x", ":", "a">>, <<"x", ":", "a", ":", "b", ":", "c">>}

\* Another client does HSET namespace key 1.
ForeignWrite(key) ==
    /\ key \notin DOMAIN redis
    /\ Cardinality(DOMAIN redis \cap ForeignKeys) < MaxForeign
    /\ redis' = Put(redis, key, PyInt(1))
    /\ call' = Call("hset", "-", "-", PyInt(1), <<>>)
    /\ exc' = "ok"
    /\ trace' = <<>>
    /\ UNCHANGED <<eager, metrics, buffer, registry, registered_remotely, counts,
                   set_command_issued, sum, total, contrib, batches, tdbatches,
                   tdfirst, setcalled, observed, nregs, nops, pc, direct>>

InitDump == InitCounter

NextDump ==
    \/ \E l \in DumpLabels : CounterInc("c1", PyInt(1), l)
    \/ Transfer("r1")
    \/ \E k \in ForeignKeys : ForeignWrite(k)

SpecDump == InitDump /\ [][NextDump]_vars

\* The keys of the intents the last call propagated.
BatchKeys(tr) ==
    UNION {{tr[i].items[j].key : j \in 1..Len(tr[i].items)} :
              i \in {x \in 1..Len(tr) : tr[x].ev = "batch"}}

Extensions == {<<>>, TYPE_EXTENSION_LETTER, DESCRIPTION_EXTENSION_LETTER,
               <<"b">>, <<"s">>, <<"c">>}

\* the no-labels sentinel and the empty label string count as equal
SameLabels(a, b) ==
    (IF a = NO_LABELS_KEY THEN <<>> ELSE a) = (IF b = NO_LABELS_KEY THEN <<>> ELSE b)

\* C13: every key that the last operation made with make_redis_key from the
\* metric's name, an extension and a label string (that of the labels passed,
\* or none) splits in the decoder into the same name, extension and label
\* string, also when a label value holds the separator.
C13_KeyRoundTrip ==
    call.op = "inc" =>
        \A e \in Extensions, ls \in {NO_LABELS_KEY, encode_labels(call.m, call.labels)} :
            LET key == make_redis_key(call.m, e, ls) IN
            key \in BatchKeys(trace) =>
                /\ split_key(key).exc = "ok"
                /\ Split(key)[1] = name(call.m)
                /\ split_key(key).ext = e
                /\ SameLabels(split_key(key).labels, ls)

\* The number of separators in a key.
Separators(key) == Cardinality({i \in 1..Len(key) : key[i] = ":"})

\* C14: splitting fails for every key of the namespace that does not hold
\* exactly two separators, those with fewer and those with more.
C14_SplitRejectsMalformed ==
    \A key \in DOMAIN redis : Separators(key) # 2 => split_key(key).exc # "ok"

\* The names of the metrics of the namespace all of whose keys are well formed.
WellFormedNames(h) ==
    {Split(k)[1] : k \in DOMAIN h} \ {Split(k)[1] : k \in {x \in DOMAIN h : Separators(x) # 2}}

\* C15: decoding a dump that holds a malformed key does not abort, and every
\* metric whose keys are well formed is decoded: it has one metric set, with a
\* value for each of its value keys.
C15_DecodeIsolatesMalformed ==
    LET d == get_data(redis) IN
    /\ d.exc = "ok"
    /\ \A n \in WellFormedNames(redis) :
          \E i \in 1..Len(d.metrics) :
             /\ d.metrics[i].name = n
             /\ Len(d.metrics[i].values)
                   = Cardinality({k \in DOMAIN redis :
                        Split(k)[1] = n /\ split_key(k).ext \notin {<<"t">>, <<"d">>}})

(***************************************************************************)
(* One process: Counter c1, Gauge g1 and Histogram h1 registered in        *)
(* registry r1, eager or not, called with valid and invalid arguments: a   *)
(* negative amount, a label that is not allowed, the reserved label le.    *)
(***************************************************************************)
ArgLabels == {LNone, LX, LLE}
\* the int -1, the float -0.5 and the int 1
ArgValues == {PyInt(-1), PyFloat(-1), PyInt(1)}

NextArgs ==
    \/ \E v \in ArgValues, l \in ArgLabels : CounterInc("c1", v, l)
    \/ \E v \in ArgValues, l \in ArgLabels : GaugeInc("g1", v, l)
    \/ \E v \in ArgValues, l \in ArgLabels : GaugeDec("g1", v, l)
    \/ \E l \in ArgLabels : GaugeSet("g1", PyInt(1), l)
    \/ \E v \in {PyInt(1), PyInt(3)}, l \in ArgLabels : Observe("h1", v, l)
    \/ ObserveResume
    \/ Transfer("r1")

SpecArgs == InitLabels /\ [][NextArgs]_vars

\* What a call that is rejected must leave as it was.
LocalState == <<counts, sum, set_command_issued, registered_remotely, buffer, redis>>

\* C16: Counter.inc, Gauge.inc and Gauge.dec called with a negative value raise
\* ValueError and leave every local value, every set-mode flag, the
\* registered-remotely flags, the buffer and Redis as they were.
C16_NegativeValueRejected ==
    [][(call'.op \in {"inc", "dec"} /\ PyLess(call'.value, PyInt(0))) =>
          /\ exc' = "ValueError"
          /\ trace' = <<>>
          /\ LocalState' = LocalState]_vars

\* dec(-1) was rejected on a gauge that is in set-mode in an eager registry.
C16_Witness ==
    /\ call.op = "dec" /\ call.m = "g1" /\ call.value = PyInt(-1) /\ call.labels = LNone
    /\ exc = "ValueError"
    /\ eager["r1"]
    /\ NO_LABELS_KEY \in set_command_issued["g1"]

LabelNames(labels) == {labels[i][1] : i \in 1..Len(labels)}

\* C17: every operation that takes labels, called with a label name that is
\* neither allowed for the metric nor reserved, raises ValueError whatever the
\* value passed, and leaves the local state of the metrics, the buffer and Redis
\* as they were.
C17_DisallowedLabelRejected ==
    [][(/\ call'.op \in {"inc", "dec", "set", "observe"}
        /\ LabelNames(call'.labels) \ (allowed_labels(call'.m) \cup RESERVED_LABELS) # {}) =>
          /\ exc' = "ValueError"
          /\ LocalState' = LocalState]_vars

\* C18: every operation that takes labels, of every metric type, called with a
\* reserved label name (le, quantile, __) raises ValueError and leaves the local
\* state of the metrics, the buffer and Redis as they were.
C18_ReservedLabelRejected ==
    [][(/\ call'.op \in {"inc", "dec", "set", "observe"}
        /\ LabelNames(call'.labels) \cap RESERVED_LABELS # {}) =>
          /\ exc' = "ValueError"
          /\ LocalState' = LocalState]_vars

(***************************************************************************)
(* Operations on metrics without registry, and unregister, under           *)
(* SpecRegistry.                                                           *)
(***************************************************************************)
HasBatch(tr) == \E i \in 1..Len(tr) : tr[i].ev = "batch"

\* C19: an operation that emits intents, on a metric attached to no registry
\* (never registered, or unregistered), raises RuntimeError and changes no buffer
\* and not Redis; on a metric that is attached the operation hands its intents
\* to the registry and does not raise that error, and returns normally when the
\* registry is not eager.
C19_UnattachedRejected ==
    /\ [](\A m \in Metrics :
            registry[m] = NoRegistry =>
               \A op \in OpsOf(m), o \in Orders :
                  \E T \in {Apply(op, State(0, o), m, PyInt(1), LNone)} :
                     T.exc = "RuntimeError" /\ T.buffer = buffer /\ T.redis = redis)
    /\ [][\A m \in Metrics :
            (call'.op \in {"inc", "dec", "set", "observe"} /\ call'.m = m) =>
               IF registry[m] = NoRegistry
               THEN exc' = "RuntimeError" /\ buffer' = buffer /\ redis' = redis
               ELSE /\ exc' # "RuntimeError"
                    /\ HasBatch(trace')
                    /\ ~eager[registry[m]] => exc' = "ok"]_vars

\* c2 was incremented before it was registered, which failed, and again after
\* it was registered, which succeeded.
C19_Witness ==
    /\ call.op = "inc" /\ call.m = "c2"
    /\ exc = "ok"
    /\ registry["c2"] = "r1"
    /\ Get(total["c2"], NO_LABELS_KEY, 0) = Halves(PyInt(1))
    /\ counts["c2"][NO_LABELS_KEY] = PyInt(2)


\* The metric a registry's index holds under a name.
Indexed(r, m) == name(m) \in DOMAIN metrics[r] /\ metrics[r][name(m)] = m

\* C20: unregister(m) removes exactly m from the index of the registry and
\* detaches m; when m is not the metric the index holds under its name the call
\* raises KeyError and changes neither the index nor the attachment of any
\* metric.
C20_UnregisterExactlyTheMetric ==
    [][\A r \in Registries, m \in Metrics :
          (call'.op = "unregister" /\ call'.r = r /\ call'.m = m) =>
             IF Indexed(r, m)
             THEN /\ exc' = "ok"
                  /\ metrics' = [metrics EXCEPT ![r] = Del(@, name(m))]
                  /\ registry' = [registry EXCEPT ![m] = NoRegistry]
             ELSE /\ exc' = "KeyError"
                  /\ metrics' = metrics
                  /\ registry' = registry]_vars


(***************************************************************************)
(* Eager and non-eager registries, under SpecLabels.                       *)
(***************************************************************************)
MetricOps == {"inc", "dec", "set", "observe"}

\* The trace of a call shows every batch flushed at once: each batch is followed
\* by a round trip that applies the buffer with the batch put into it to the
\* hash h, the buffer is empty afterwards, and final is the hash after the last
\* round trip.
RECURSIVE FlushedAtOnce(_, _, _, _)
FlushedAtOnce(tr, h, buf, final) ==
    IF tr = <<>> THEN buf = EmptyDict /\ h = final
    ELSE IF Head(tr).ev = "batch"
    THEN /\ Len(tr) >= 2
         /\ tr[2].ev = "exec"
         /\ tr[2].buf = BufferPut(buf, Head(tr).items)
         /\ tr[2].redis = pipe_execute(h, tr[2].buf)
         /\ FlushedAtOnce(Tail(Tail(tr)), tr[2].redis, EmptyDict, final)
    ELSE Head(tr).ev \in {"reset", "clear"} /\ FlushedAtOnce(Tail(tr), h, buf, final)

\* C21: in an eager registry every batch of a metric operation that does not
\* raise was flushed when it was handed over: after the operation, and after
\* each propagate call of an observe, the buffer is empty and Redis holds the
\* result of applying the batch.
C21_EagerFlushesEveryBatch ==
    [][\A m \in Metrics :
          (/\ call'.op \in MetricOps /\ call'.m = m
           /\ registry[m] # NoRegistry /\ eager[registry[m]]
           /\ exc' = "ok") =>
             /\ buffer'[registry[m]] = EmptyDict
             /\ HasBatch(trace')
             /\ FlushedAtOnce(trace', redis, buffer[registry[m]], redis')]_vars

\* An observe on an eager registry returned: it made one round trip for each of
\* its batches and Redis holds the sum it set.
C21_Witness ==
    /\ call.op = "observe" /\ call.m = "h1"
    /\ eager["r1"]
    /\ exc = "ok"
    /\ buffer["r1"] = EmptyDict
    /\ Returned
    /\ Len(BatchesOf("h1", pc.done)) >= 3
    /\ Len(SelectSeq(pc.done, LAMBDA e : e.ev = "exec")) = Len(BatchesOf("h1", pc.done))
    /\ make_redis_key("h1", <<"s">>, <<>>) \in DOMAIN redis


\* The intents a call handed to registry r, in the order it emitted them.
RECURSIVE Emitted(_, _)
Emitted(tr, r) ==
    IF tr = <<>> THEN <<>>
    ELSE (IF Head(tr).ev = "batch" /\ Head(tr).r = r THEN Head(tr).items ELSE <<>>)
         \o Emitted(Tail(tr), r)

\* The buffer new holds, under each key, the last of the intents emitted for the
\* key, or what the buffer old held when none was emitted.
LastWriteWins(old, emitted, new) ==
    /\ DOMAIN new = DOMAIN old \cup {emitted[i].key : i \in 1..Len(emitted)}
    /\ \A k \in DOMAIN new :
          LET at == {i \in 1..Len(emitted) : emitted[i].key = k} IN
          IF at = {} THEN new[k] = old[k]
          ELSE new[k] = emitted[CHOOSE i \in at : \A j \in at : j <= i]

\* C22: in a non-eager registry no metric operation and no register or
\* unregister changes Redis, which changes in transfer only; after such a call
\* the buffer holds, for each key, the most recent intent emitted for it.
C22_NonEagerBuffersLastWrite ==
    /\ [](\A r \in Registries, m \in Metrics :
             /\ register(State(0, CHOOSE o \in Orders : TRUE), r, m).redis = redis
             /\ unregister(State(0, CHOOSE o \in Orders : TRUE), r, m).redis = redis)
    /\ [][/\ (redis' # redis /\ call'.op # "transfer") =>
                (call'.op \in MetricOps /\ registry[call'.m] # NoRegistry
                    /\ eager[registry[call'.m]])
          /\ \A r \in Registries :
                (~eager[r] /\ call'.op \in MetricOps /\ registry[call'.m] = r) =>
                    /\ redis' = redis
                    /\ LastWriteWins(buffer[r], Emitted(trace', r), buffer'[r])]_vars

\* c1 was incremented twice for the same labels in a non-eager registry: the
\* buffer holds the second intent and Redis is untouched.
C22_Witness ==
    /\ ~eager["r1"]
    /\ call.op = "inc" /\ call.m = "c1" /\ exc = "ok"
    /\ redis = EmptyDict
    /\ nops["r1"] = 2
    /\ \E k \in DOMAIN buffer["r1"] :
          /\ buffer["r1"][k].value = PyInt(3)
          /\ ~buffer["r1"][k].set
          /\ Halves(buffer["r1"][k].value) = Get(total["c1"], encode_labels("c1", LAB), 0)


(***************************************************************************)
(* ExpositionClient.expose: the text rendered from the decoded namespace,  *)
(* a sequence of characters in which "\n" ends a line.                     *)
(***************************************************************************)
\* str(x) in an f-string: None renders as the word None
Format(v) == IF v.kind = "none" THEN <<"N", "o", "n", "e">> ELSE v.str

Truthy(v) == v.kind = "str" /\ v.str # <<>>

\* The line of a value as it would be with the brace segment always written.
ValueLine_AlwaysBraces(metric_name, value) ==
    IF Truthy(value.type)
    THEN metric_name \o <<"_">> \o value.type.str \o <<"{">> \o value.labels \o <<"}", " ">>
             \o value.value \o <<"\n">>
    ELSE metric_name \o <<"{">> \o value.labels \o <<"}", " ">> \o value.value \o <<"\n">>

\* expose(): the four branches of the loop over metric.values
ValueLine(metric_name, value) ==
    IF Truthy(value.type) /\ value.labels # <<>>
    THEN metric_name \o <<"_">> \o value.type.str \o <<"{">> \o value.labels \o <<"}", " ">>
             \o value.value \o <<"\n">>
    ELSE IF Truthy(value.type)
    THEN metric_name \o <<"_">> \o value.type.str \o <<" ">> \o value.value \o <<"\n">>
    ELSE IF value.labels # <<>>
    THEN metric_name \o <<"{">> \o value.labels \o <<"}", " ">> \o value.value \o <<"\n">>
    ELSE metric_name \o <<" ">> \o value.value \o <<"\n">>

RECURSIVE ValueLines(_, _)
ValueLines(metric_name, values) ==
    IF values = <<>> THEN <<>>
    ELSE ValueLine(metric_name, Head(values)) \o ValueLines(metric_name, Tail(values))

\* expose(): the body of the loop over the metric sets
ExposeSet(metric) ==
    <<"#", " ", "H", "E", "L", "P", " ">> \o metric.name \o <<" ">>
        \o Format(metric.description) \o <<"\n">>
    \o <<"#", " ", "T", "Y", "P", "E", " ">> \o metric.name \o <<" ">>
        \o Format(metric.type) \o <<"\n">>
    \o ValueLines(metric.name, metric.values)
    \o <<"\n">>

RECURSIVE ExposeSets(_)
ExposeSets(sets) ==
    IF sets = <<>> THEN <<>> ELSE ExposeSet(Head(sets)) \o ExposeSets(Tail(sets))

\* ExpositionClient.expose on the hash h of the namespace
expose(h) ==
    LET d == get_data(h)
    IN IF d.exc # "ok" THEN [exc |-> d.exc, out |-> <<>>]
       ELSE [exc |-> "ok", out |-> ExposeSets(d.metrics)]

\* The lines of a text, without their line ends.
RECURSIVE Lines(_)
Lines(text) ==
    LET ends == {i \in 1..Len(text) : text[i] = "\n"} IN
    IF text = <<>> THEN <<>>
    ELSE IF ends = {} THEN <<text>>
    ELSE LET end == CHOOSE i \in ends : \A j \in ends : i <= j
         IN <<SubSeq(text, 1, end - 1)>> \o Lines(SubSeq(text, end + 1, Len(text)))

StartsWith(s, prefix) == Len(s) >= Len(prefix) /\ SubSeq(s, 1, Len(prefix)) = prefix

\* The label string of the labels a and b of the model, sorted by name.
SortedAB == <<"a", "=", "\"", "1", "\"", ",", "b", "=", "\"", "2", "\"">>

HelpLine == <<"#", " ", "H", "E", "L", "P", " ", "c", " ", "D">>
TypeLine == <<"#", " ", "T", "Y", "P", "E", " ", "c", " ", "c", "o", "u", "n", "t", "e", "r">>

\* In the lines ls exactly one begins with prefix; it is prefix followed by the
\* text of the number of n halves (2 or 1.5), and the HELP and the TYPE line of
\* c1 come before it.
OneValueLine(ls, prefix, n) ==
    /\ Cardinality({i \in 1..Len(ls) : StartsWith(ls[i], prefix)}) = 1
    /\ \E i \in 1..Len(ls) :
          /\ ls[i] = prefix \o DecodeValue(RedisNumber(n))
          /\ \E j, k \in 1..(i - 1) : j < k /\ ls[j] = HelpLine /\ ls[k] = TypeLine

\* C23: after inc calls and flushes only (the application has not called reset,
\* update_buffer or propagate itself) of which Redis rejected none, once the
\* buffer of c1's registry is flushed, the rendered dump has for the
\* labels a and b, passed to inc in either order, exactly one line
\* c{a="1",b="2"} total after the HELP and TYPE lines of c, and for no labels
\* exactly one line c total without a brace segment.
C23_RenderedCounterLines ==
    (direct = {} /\ buffer["r1"] = EmptyDict) =>
        \E e \in {expose(redis)} :
           /\ e.exc = "ok"
           /\ SortedAB \in DOMAIN total["c1"] =>
                 OneValueLine(Lines(e.out), <<"c", "{">> \o SortedAB \o <<"}", " ">>,
                              total["c1"][SortedAB])
           /\ NO_LABELS_KEY \in DOMAIN total["c1"] =>
                 OneValueLine(Lines(e.out), <<"c", " ">>, total["c1"][NO_LABELS_KEY])

\* inc(1) and inc(0.5) with the labels a and b and one flush, which sends their
\* sum by HINCRBYFLOAT: the dump renders the line c{a="1",b="2"} 1.5.
C23_Witness ==
    /\ direct = {}
    /\ call.op = "transfer" /\ exc = "ok"
    /\ buffer["r1"] = EmptyDict
    /\ SortedAB \in DOMAIN total["c1"]
    /\ total["c1"][SortedAB] = Halves(PyFloat(3))
    /\ \E i \in 1..Len(Lines(expose(redis).out)) :
          Lines(expose(redis).out)[i]
             = <<"c", "{">> \o SortedAB \o <<"}", " ", "1", ".", "5">>


(***************************************************************************)
(* Registration and the type and description intents, under SpecRegistry.  *)
(***************************************************************************)
\* C24: a metric that has propagated its type and description and was then
\* registered again propagates them again with its next batch: when the last
\* call registered the metric, the first batch of an operation on it carries the
\* type and the description intent.
C24_ReRegisteredSendsTypeAgain ==
    [][\A m \in Metrics :
          (/\ call.op = "register" /\ call.m = m /\ exc = "ok"
           /\ tdbatches[m] >= 1
           /\ call'.op \in MetricOps /\ call'.m = m
           /\ BatchesOf(m, trace') # <<>>) =>
             HasTypeDesc(m, BatchesOf(m, trace')[1].items)]_vars


(***************************************************************************)
(* The bucket counts of Histogram h1 in Redis, under SpecHist.             *)
(***************************************************************************)
RemoteBucket(b, l) == RemoteInt(make_redis_key("h1", <<"b">>, BucketCountKey("h1", b, l)))

RemoteInf == RemoteInt(make_redis_key("h1", <<"b">>, InfCountKey))

\* C25: in every state of Redis, eager registry or not, the bucket counts of each
\* label combination of h1 do not decrease as the boundary grows, and none
\* exceeds the count of le="+Inf".
C25_RemoteBucketsMonotone ==
    \A l \in {LNone, LA} :
        /\ \A i, j \in 1..Len(buckets("h1")) :
              buckets("h1")[i] <= buckets("h1")[j] =>
                  RemoteBucket(buckets("h1")[i], l) <= RemoteBucket(buckets("h1")[j], l)
        /\ \A i \in 1..Len(buckets("h1")) : RemoteBucket(buckets("h1")[i], l) <= RemoteInf


(***************************************************************************)
(* The intents of one Histogram.observe, under SpecHist.                   *)
(***************************************************************************)
\* The intents for key that a call emitted.
IntentsFor(tr, key) == SelectSeq(Emitted(tr, "r1"), LAMBDA it : it.key = key)

\* A step of an observe on h1 that emits an intent for the sum key gives it the
\* given set flag and the local sum as it then is (the sum before the step plus
\* the value observed); an observe that returned has emitted, in all its steps,
\* one intent for the sum key and one intent with set=False for the total-count
\* key.
ObserveIntents(absolute) ==
    (call'.op = "observe" /\ call'.m = "h1") =>
        LET sum_key == make_redis_key("h1", <<"s">>, <<>>)
            count_key == make_redis_key("h1", <<"c">>, <<>>)
            sums == IntentsFor(trace', sum_key)
            totals == IntentsFor(pc'.done, count_key)
        IN /\ \A i \in 1..Len(sums) :
                 /\ sums[i].set = absolute
                 /\ sums[i].value = PyAdd(sum["h1"], call'.value)
           /\ (exc' = "ok" /\ pc'.rest = <<>>) =>
                 /\ Len(IntentsFor(pc'.done, sum_key)) = 1
                 /\ Len(totals) = 1
                 /\ ~totals[1].set

\* C26 as claimed: each observe emits exactly one intent for the sum key, an
\* absolute set carrying the new cumulative local sum, and exactly one increment
\* intent for the total-count key.
C26_SumIntentIsAbsoluteSet == [][ObserveIntents(TRUE)]_vars

\* C26 as amended: each observe that returns emits exactly one intent for the sum
\* key, an increment (set=False) carrying the new cumulative local sum, and
\* exactly one increment intent for the total-count key.
C26_SumIntentIsIncrement == [][ObserveIntents(FALSE)]_vars

\* The second observe on a non-eager registry: after 1 and 2 the buffer holds the
\* sum intent with value 3 and set=False.
C26_Witness ==
    /\ ~eager["r1"]
    /\ call.op = "observe" /\ call.value = PyInt(2) /\ exc = "ok"
    /\ sum["h1"] = PyInt(3)
    /\ IntentsFor(trace, make_redis_key("h1", <<"s">>, <<>>))
          = <<UpdateAction(make_redis_key("h1", <<"s">>, <<>>), PyInt(3), FALSE)>>
    /\ Len(IntentsFor(trace, make_redis_key("h1", <<"c">>, <<>>))) = 1


(***************************************************************************)
(* Register and unregister calls over the two registries, on metrics of    *)
(* different names that start unattached.  The application may also call   *)
(* add_registry and remove_registry of a metric itself.                    *)
(***************************************************************************)
InitAttach ==
    \E e \in BOOLEAN : InitWith([r \in Registries |-> e /\ r = "r1"], Unregistered)

NextAttach ==
    \/ \E r \in Registries, m \in {"c1", "g1", "h1"} : Register(r, m)
    \/ \E r \in Registries, m \in {"c1", "g1", "h1"} : Unregister(r, m)
    \/ \E r \in Registries, m \in {"c1", "g1", "h1"} : AddRegistry(m, r)
    \/ \E m \in {"c1", "g1", "h1"} : RemoveRegistry(m)

SpecAttach == InitAttach /\ [][NextAttach]_vars

\* C27: in the states reached by register and unregister calls only (the
\* application has not called add_registry or remove_registry itself), a metric
\* is attached to a registry exactly when the index of that
\* registry maps the metric's name to it, so it is indexed by no registry other
\* than the one it is attached to: registering it in a second registry removes it
\* from the index of the first.
C27_AttachedIffIndexed ==
    direct = {} => \A m \in Metrics, r \in Registries : registry[m] = r <=> Indexed(r, m)


(***************************************************************************)
(* Gauge g1 in set-mode, under SpecGauge.                                  *)
(***************************************************************************)
GaugeKey(l) == make_redis_key("g1", <<>>, encode_labels("g1", l))

\* C28: for a label combination of g1 that is in set-mode, whenever the buffer is
\* empty Redis holds the gauge's local value; and the local value is the value of
\* the last set plus the increments and minus the decrements after it: set makes
\* it the value passed, inc and dec in set-mode add and subtract theirs, a flush
\* leaves it.
C28_SetModeRemoteIsLocal ==
    /\ [](\A l \in {LNone, LA} :
             (encode_labels("g1", l) \in set_command_issued["g1"] /\ buffer["r1"] = EmptyDict) =>
                 /\ GaugeKey(l) \in DOMAIN redis
                 /\ redis[GaugeKey(l)] = counts["g1"][encode_labels("g1", l)])
    /\ [][\A l \in {LNone, LA} :
             LET key == encode_labels("g1", l)
                 before == Get(counts["g1"], key, PyInt(0))
                 after == Get(counts'["g1"], key, PyInt(0))
                 mine == call'.m = "g1" /\ call'.labels = l /\ exc' # "ValueError"
             IN /\ (mine /\ call'.op = "set") => after = call'.value
                /\ (mine /\ call'.op = "inc" /\ key \in set_command_issued["g1"]) =>
                       after = PyAdd(before, call'.value)
                /\ (mine /\ call'.op = "dec" /\ key \in set_command_issued["g1"]) =>
                       after = PySub(before, call'.value)
                /\ (~mine /\ key \in set_command_issued["g1"]) => after = before]_vars

\* inc(1) and then set(0.5) were buffered and went out with the gauge's first
\* flush: Redis holds the text 0.5 of the value set, not 1.5.
C28_Witness ==
    /\ call.op = "transfer" /\ exc = "ok"
    /\ buffer["r1"] = EmptyDict
    /\ NO_LABELS_KEY \in set_command_issued["g1"]
    /\ Get(total["g1"], NO_LABELS_KEY, 0) = Halves(PyInt(1))
    /\ counts["g1"][NO_LABELS_KEY] = PyFloat(1)
    /\ redis[GaugeKey(LNone)] = PyFloat(1)
    /\ \E i \in 1..Len(trace) :
          /\ trace[i].ev = "exec"
          /\ metric_type_key("g1") \in DOMAIN trace[i].buf
          /\ trace[i].buf[GaugeKey(LNone)] = UpdateAction(GaugeKey(LNone), PyFloat(1), TRUE)


(***************************************************************************)
(* What a call on a metric without registry leaves behind, under           *)
(* SpecRegistry.                                                           *)
(***************************************************************************)
\* The state after the call that gave T: the next call starts without exception
\* and with an empty trace.
Continue(T) == [T EXCEPT !.exc = "ok", !.trace = <<>>]

\* The value of the first intent of the first batch in the trace of a call.
FirstValue(tr) == SelectSeq(tr, LAMBDA e : e.ev = "batch")[1].items[1].value

\* The operation op with value 2 on the unattached metric m, then register(m)
\* in the non-eager registry r2, then the operation again (for a gauge: inc(1);
\* for a counter: inc(1); for a histogram: the same observe).
FailedThenRegistered(op, m, v) ==
    LET S == State(0, CHOOSE o \in Orders : TRUE)
        T1 == Apply(op, S, m, v, LNone)
        T2 == register(Continue(T1), "r2", m)
    IN [failed |-> T1,
        again |-> Apply(IF Kind(m) = "Histogram" THEN op ELSE "inc", T2, m,
                        IF Kind(m) = "Histogram" THEN v ELSE PyInt(1), LNone)]

\* The local value the failed call is expected to have left, and the value the
\* first intent after registration is expected to carry.
LocalOf(S, m, v) ==
    CASE Kind(m) # "Histogram" -> Get(S.counts[m], NO_LABELS_KEY, PyInt(0))
      [] PyGe(PyInt(2), v) -> Get(S.counts[m], BucketCountKey(m, 2, LNone), PyInt(0))
      [] OTHER -> S.sum[m]

AmountOf(op, m, v, before) ==
    CASE Kind(m) = "Histogram" /\ PyGe(PyInt(2), v) -> PyAdd(before, PyInt(1))
      [] op = "dec" -> PySub(before, v)
      [] op = "set" -> v
      [] OTHER -> PyAdd(before, v)

\* C29: a call that fails with RuntimeError for want of a registry has changed
\* the local value by its amount, and after register the first intent of the next
\* call carries the failed amount too; on every inc of a counter that propagates,
\* the first intent carries the local value with the amounts of earlier failed
\* calls in it.
C29_FailedAmountStays ==
    /\ [](\A m \in Metrics :
             registry[m] = NoRegistry =>
                \A op \in OpsOf(m), v \in {PyInt(2), PyInt(3)} :
                   \E R \in {FailedThenRegistered(op, m, v)} :
                      LET before == LocalOf(State(0, CHOOSE o \in Orders : TRUE), m, v)
                          left == AmountOf(op, m, v, before)
                      IN /\ R.failed.exc = "RuntimeError"
                         /\ LocalOf(R.failed, m, v) = left
                         /\ R.again.exc = "ok"
                         /\ FirstValue(R.again.trace)
                               = AmountOf(IF Kind(m) = "Histogram" THEN op ELSE "inc", m,
                                          IF Kind(m) = "Histogram" THEN v ELSE PyInt(1), left))
    /\ [][\A m \in {"c1", "c2"} :
             (call'.op = "inc" /\ call'.m = m) =>
                /\ exc' = "RuntimeError" =>
                      counts'[m][NO_LABELS_KEY] = PyAdd(counts[m][NO_LABELS_KEY], call'.value)
                /\ BatchesOf(m, trace') # <<>> =>
                      FirstValue(trace') = PyAdd(counts[m][NO_LABELS_KEY], call'.value)]_vars

\* c2 was incremented by 1 before it was registered, which failed, and by 1
\* after: the intent of the second call carries 2.
C29_Witness ==
    /\ call.op = "inc" /\ call.m = "c2" /\ call.value = PyInt(1)
    /\ exc = "ok"
    /\ Get(total["c2"], NO_LABELS_KEY, 0) = Halves(PyInt(1))
    /\ BatchesOf("c2", trace) # <<>>
    /\ FirstValue(trace) = PyInt(2)


(***************************************************************************)
(* The decoder on dumps whose metric names are prefixes of one another:    *)
(* the namespace holds any of the fields below, written by the library or  *)
(* by another client, and the exposition client decodes it.                *)
(***************************************************************************)
DecodeKeys ==
    {<<"c">>, <<"c", ":", ":">>, <<"c", ":", "t", ":">>,
     <<"c", "1", ":", ":">>, <<"c", "1", ":", "t", ":">>,
     <<"c", "_", "b", ":", ":">>, <<"c", ":", ":", "a", "=", "\"", "1", "\"">>}

InitDecode == InitWith([r \in Registries |-> FALSE], Unregistered)

\* Another client fills the namespace: HSET namespace key c for the keys chosen.
Fill(keys) ==
    /\ call.op = "init"
    /\ redis' = [k \in keys |-> PyStr(<<"c">>)]
    /\ call' = Call("hset", "-", "-", PyStr(<<"c">>), <<>>)
    /\ exc' = "ok"
    /\ trace' = <<>>
    /\ UNCHANGED <<eager, metrics, buffer, registry, registered_remotely, counts,
                   set_command_issued, sum, total, contrib, batches, tdbatches,
                   tdfirst, setcalled, observed, nregs, nops, pc, direct>>

\* ExpositionClient._get_data(): exc is the exception it raised.
Decode ==
    /\ call.op = "hset"
    /\ call' = Call("decode", "-", "-", PyNone, <<>>)
    /\ exc' = get_data(redis).exc
    /\ trace' = <<>>
    /\ UNCHANGED <<redis, eager, metrics, buffer, registry, registered_remotely, counts,
                   set_command_issued, sum, total, contrib, batches, tdbatches,
                   tdfirst, setcalled, observed, nregs, nops, pc, direct>>

NextDecode ==
    \/ \E keys \in SUBSET DecodeKeys : Fill(keys)
    \/ Decode

SpecDecode == InitDecode /\ [][NextDecode]_vars

\* The metric names of a sequence of keys, in order.
NamesOf(keys) == [i \in 1..Len(keys) |-> Split(keys[i])[1]]

\* Equal names stand next to each other.
Adjacent(names) ==
    \A i, j, k \in 1..Len(names) : (i < j /\ j < k /\ names[i] = names[k]) => names[j] = names[i]

\* C30: for every set of keys, sorting them by the full key puts the keys of one
\* metric name next to each other, and a decode that returns gives exactly one
\* metric set for each metric name in the dump.
C30_OneSetPerName ==
    call.op = "decode" =>
        /\ Adjacent(NamesOf(SortedKeys(DOMAIN redis)))
        /\ exc = "ok" =>
              \E d \in {get_data(redis)} :
                 /\ {d.metrics[i].name : i \in 1..Len(d.metrics)}
                        = {Split(k)[1] : k \in DOMAIN redis}
                 /\ \A i, j \in 1..Len(d.metrics) :
                        d.metrics[i].name = d.metrics[j].name => i = j

====
